---- MODULE Spec2Model ----
(***************************************************************************)
(* k9LogBot: the ledger store (database.py), the cleanup primitives        *)
(* (report_cleanup.py) and the chat handlers that drive them               *)
(* (bot_logic.py), as a state machine.                                     *)
(*                                                                         *)
(* Amounts are integers (the code stores REAL; rounding is not modelled).  *)
(* A timestamp is the index of the wall-clock day it was taken on; day     *)
(* indices map to calendar dates through DateOfDay.                        *)
(***************************************************************************)
EXTENDS Integers, Sequences, FiniteSets, TLC

\* ---------------------------------------------------------------- bounds
\* rows the ledger mutators may append in one behaviour
MaxTxns == 2
\* times the wall clock may pass midnight in one behaviour
MaxDays == 1
\* rows the file named by DB_PATH may hold at start, when it is not the ledger
MaxOther == 1
\* chats that talk to the bot in one behaviour: one operator alone, and
\* operators working side by side
MaxChats == 1

MaxOperators == 2

\* ------------------------------------------------------------- calendar
\* Day index n is the n-th day after 2024-11-30: 1..31 is December 2024,
\* 32.. is January 2025, 0 and below is November 2024.
FirstDay == 31

DateOfDay(n) ==
    IF n <= 0 THEN [y |-> 2024, m |-> 11, d |-> 30 + n]
    ELSE IF n <= 31 THEN [y |-> 2024, m |-> 12, d |-> n]
    ELSE [y |-> 2025, m |-> 1, d |-> n - 31]

\* ------------------------------------------------------------ date texts
\* A text is a sequence of character codes (ASCII), so that the string
\* comparison SQLite applies to DATE(...) >= ? can be computed.
Dash == 45
Zero == 48

IsDigit(c) == c >= Zero /\ c <= Zero + 9

Pad2(n) == <<Zero + (n \div 10), Zero + (n % 10)>>

Pad4(n) == <<Zero + (n \div 1000), Zero + ((n \div 100) % 10),
             Zero + ((n \div 10) % 10), Zero + (n % 10)>>

\* strftime("%Y-%m-%d") and SQLite's DATE(): zero-padded YYYY-MM-DD
FormatDate(dt) == Pad4(dt.y) \o <<Dash>> \o Pad2(dt.m) \o <<Dash>> \o Pad2(dt.d)

\* the text without zero padding of month and day (an operator may type it)
FormatUnpadded(dt) ==
    LET U(n) == IF n < 10 THEN <<Zero + n>> ELSE Pad2(n)
    IN  Pad4(dt.y) \o <<Dash>> \o U(dt.m) \o <<Dash>> \o U(dt.d)

\* lexicographic (memcmp) order of two texts: a < b
RECURSIVE TextLess(_, _)
TextLess(a, b) ==
    IF b = <<>> THEN FALSE
    ELSE IF a = <<>> THEN TRUE
    ELSE IF Head(a) # Head(b) THEN Head(a) < Head(b)
    ELSE TextLess(Tail(a), Tail(b))

TextLeq(a, b) == a = b \/ TextLess(a, b)

DaysInMonth(y, m) ==
    IF m = 2 THEN (IF (y % 4 = 0 /\ y % 100 # 0) \/ y % 400 = 0 THEN 29 ELSE 28)
    ELSE IF m \in {4, 6, 9, 11} THEN 30 ELSE 31

Invalid == [y |-> 0, m |-> 0, d |-> 0]

\* the number a field of one or two digits denotes (0 when it is neither)
FieldValue(f) ==
    IF Len(f) = 1 /\ IsDigit(f[1]) THEN f[1] - Zero
    ELSE IF Len(f) = 2 /\ IsDigit(f[1]) /\ IsDigit(f[2])
         THEN 10 * (f[1] - Zero) + (f[2] - Zero)
    ELSE 0

\* fault variant: every text parses
validate_date_lenient(text) == [y |-> 2024, m |-> 12, d |-> 31]

\* datetime.strptime(text, "%Y-%m-%d"): four digits of year, a dash, a month
\* 1..12 of one or two digits, a dash, a day of one or two digits that the
\* month has; anything else is a ValueError (Invalid).
validate_date(text) ==
    IF Len(text) < 8 \/ Len(text) > 10 THEN Invalid
    ELSE IF ~(\A i \in 1..4 : IsDigit(text[i])) \/ text[5] # Dash THEN Invalid
    ELSE
        LET rest  == SubSeq(text, 6, Len(text))
            dashes == {i \in 1..Len(rest) : rest[i] = Dash}
        IN  IF Cardinality(dashes) # 1 THEN Invalid
            ELSE
                LET k  == CHOOSE i \in dashes : TRUE
                    y  == 1000 * (text[1] - Zero) + 100 * (text[2] - Zero)
                          + 10 * (text[3] - Zero) + (text[4] - Zero)
                    m  == FieldValue(SubSeq(rest, 1, k - 1))
                    d  == FieldValue(SubSeq(rest, k + 1, Len(rest)))
                IN  IF y >= 1 /\ m >= 1 /\ m <= 12 /\ d >= 1 /\ d <= DaysInMonth(y, m)
                    THEN [y |-> y, m |-> m, d |-> d]
                    ELSE Invalid

\* fault variant: no date is ever after another
DateAfter_never(a, b) == FALSE

\* datetime comparison start_dt > end_dt
DateAfter(a, b) ==
    \/ a.y > b.y
    \/ a.y = b.y /\ a.m > b.m
    \/ a.y = b.y /\ a.m = b.m /\ a.d > b.d

\* ------------------------------------------------------------------ state
VARIABLES
    transactions,     \* rows of the ledger's transactions table, in rowid order
    current_balance,  \* balances.current_balance of the row id = 1
    sqlite_sequence,  \* the AUTOINCREMENT counter of the transactions table
    today,            \* the wall clock's day index (datetime.now())
    db_path,          \* which file DB_PATH names: "ledger" or "other"
    other,            \* the file DB_PATH names when it is not the ledger
    last,             \* the last call made and what it returned
    conns,            \* the sqlite3 connections of _add_transaction calls in progress
    observed,         \* what the last reader's connection saw
    state,            \* per chat, the state of the cleanup ConversationHandler
    user_data,        \* per chat, context.user_data (a dict: absent keys are absent)
    admins,           \* the chats for which is_admin is true
    handled,          \* the last update handled: chat, handler, input, reply sent
    shown,            \* per chat, the ids of the rows its last preview listed
    credit_conv,      \* per chat, the state of the credit ConversationHandler
    cashout_conv,     \* per chat, the state of the cash-out ConversationHandler
    stats_cache,      \* OLEDDisplayManager.stats_cache
    current_screen,   \* OLEDDisplayManager.current_screen
    weekly_job,       \* what the scheduler's last run of the weekly job left
    global_oled_display,  \* bot_logic.global_oled_display: the display or None
    notification_text,    \* OLEDDisplayManager.notification_text
    returned          \* what the last read of the store returned

store_vars == <<transactions, current_balance, sqlite_sequence, today, db_path, other, last>>

txn_vars == <<conns, observed>>

conv_vars == <<credit_conv, cashout_conv>>

display_vars == <<stats_cache, current_screen, weekly_job>>

notif_vars == <<global_oled_display, notification_text>>

app_vars == <<conv_vars, display_vars, notif_vars, returned>>

bot_vars == <<state, user_data, admins, handled, shown, app_vars>>

vars == <<transactions, current_balance, sqlite_sequence, today, db_path, other, last,
          conns, observed, state, user_data, admins, handled, shown,
          credit_conv, cashout_conv, stats_cache, current_screen, weekly_job,
          global_oled_display, notification_text, returned>>

\* the columns init_db gives the ledger's transactions table
LedgerColumns == {"id", "timestamp", "amount", "type", "description", "week_number", "year"}

\* the columns the SQL of report_cleanup.py names
CleanupColumns == {"id", "date", "amount", "type", "description"}

\* ----------------------------------------------------------------- inputs
Amounts == {-30, 30}

BalanceInputs == {0, 30}

Days == FirstDay .. (FirstDay + MaxDays)

Garbage == <<Dash>>

PaddedDates == {FormatDate(DateOfDay(n)) : n \in Days}

Unpadded == FormatUnpadded(DateOfDay(FirstDay + 1))

\* a text of the right shape naming a day no month has
NoSuchDay == FormatDate([y |-> 2024, m |-> 12, d |-> 32])

\* the date texts an operator may type
DateInputs == PaddedDates \cup {Unpadded, Garbage, NoSuchDay}

\* the (from_date, to_date) arguments tried: every pair of well-formed dates
\* (in order or reversed), a malformed date, an unpadded date
DateRanges ==
    (PaddedDates \X PaddedDates) \cup {<<Garbage, FormatDate(DateOfDay(FirstDay))>>,
                                      <<FormatDate(DateOfDay(FirstDay)), Unpadded>>}

\* the entry_ids arguments tried: none, one id (present or not), two ids of
\* which the second was never assigned
IdInputs ==
    {{}} \cup {{i} : i \in 1 .. (MaxTxns + 1)} \cup {{1, MaxTxns + 1}}

OtherTypes == {"walk", "credit", "payment"}

\* ------------------------------------------------------------ return values
Ok == [success |-> TRUE, deleted_count |-> 0, error |-> "None"]

Failed(msg) == [success |-> FALSE, deleted_count |-> 0, error |-> msg]

Deleted(n) == [success |-> TRUE, deleted_count |-> n, error |-> "None"]

Call(name, amount, ids, from_date, to_date, ret) ==
    [op |-> name, amount |-> amount, ids |-> ids,
     from_date |-> from_date, to_date |-> to_date, ret |-> ret]

NoCall == Call("none", 0, {}, <<>>, <<>>, Ok)

\* ------------------------------------------------------------- sequences
RECURSIVE SelectRows(_, _)
\* the rows of s whose index is in keep, in order
SelectRows(s, keep) ==
    IF s = <<>> THEN <<>>
    ELSE LET n == Len(s)
             front == SelectRows(SubSeq(s, 1, n - 1), keep)
         IN  IF n \in keep THEN Append(front, s[n]) ELSE front

RECURSIVE SumAmounts(_)
SumAmounts(s) == IF s = <<>> THEN 0 ELSE s[1].amount + SumAmounts(Tail(s))

\* the fold of section 4.2 over a log in creation order
RECURSIVE Fold(_, _)
Fold(acc, s) ==
    IF s = <<>> THEN acc
    ELSE Fold(IF s[1].type = "initial_balance" THEN s[1].amount ELSE acc + s[1].amount,
              Tail(s))

Ids(s) == {s[i].id : i \in 1..Len(s)}

\* ------------------------------------------------------------- the ledger
\* fault variant: id is a plain rowid, one more than the largest id in the table
InsertRow_rowid(rows, seq, now, amount, transaction_type, description) ==
    Append(rows, [id |-> IF rows = <<>> THEN 1 ELSE rows[Len(rows)].id + 1,
                  timestamp |-> now, amount |-> amount,
                  type |-> transaction_type, description |-> description])

\* INSERT INTO transactions (...) VALUES (now.isoformat(), amount, type, description, ...)
\* id INTEGER PRIMARY KEY AUTOINCREMENT: one more than the largest id ever assigned
InsertRow(rows, seq, now, amount, transaction_type, description) ==
    Append(rows, [id |-> seq + 1, timestamp |-> now, amount |-> amount,
                  type |-> transaction_type, description |-> description])

\* UPDATE balances SET current_balance = current_balance + ?
UpdateBalance(balance, amount) == balance + amount

_add_transaction(name, given, amount, transaction_type, description) ==
    /\ sqlite_sequence < MaxTxns
    /\ transactions' = InsertRow(transactions, sqlite_sequence, today,
                                 amount, transaction_type, description)
    /\ sqlite_sequence' = sqlite_sequence + 1
    /\ current_balance' = UpdateBalance(current_balance, amount)
    /\ last' = Call(name, given, {}, <<>>, <<>>, Ok)
    /\ UNCHANGED <<today, db_path, other>>

Abs(a) == IF a < 0 THEN -a ELSE a

WalkAmount(amount) == amount

\* fault variant: the sign is flipped without taking the magnitude first
PaymentAmount_negated(amount) == -amount

PaymentAmount(amount) == -Abs(amount)

CreditAmount(amount) == -Abs(amount)

add_walk(amount) ==
    _add_transaction("add_walk", amount, WalkAmount(amount), "walk", "Dog walk")

record_payment(amount) ==
    _add_transaction("record_payment", amount, PaymentAmount(amount),
                     "payment", "Manual cash out")

record_credit_given(amount) ==
    _add_transaction("record_credit_given", amount, CreditAmount(amount),
                     "credit_given", "Advance payment/Credit from Nana")

get_current_balance == current_balance

\* UPDATE balances SET current_balance = ?   (no row is written to the log)
set_initial_balance(amount) ==
    /\ current_balance' = amount
    /\ last' = Call("set_initial_balance", amount, {}, <<>>, <<>>, Ok)
    /\ UNCHANGED <<transactions, sqlite_sequence, today, db_path, other>>

\* ------------------------------------------------- the file DB_PATH names
\* sqlite3.connect(DB_PATH): the ledger's table when DB_PATH names the ledger
\* file, otherwise whatever that other file holds
CleanupTable ==
    IF db_path = "ledger"
    THEN [exists |-> TRUE, columns |-> LedgerColumns, rows |-> transactions]
    ELSE other

\* the sqlite3.OperationalError a statement naming these columns raises
SqlError(table, columns) ==
    IF ~table.exists THEN "no such table: transactions"
    ELSE IF ~("date" \in columns => "date" \in table.columns) THEN "no such column: date"
    ELSE "None"

\* WHERE DATE(date) >= ? AND DATE(date) <= ?   (text comparison)
InRange(row, from_date, to_date) ==
    /\ TextLeq(from_date, FormatDate(DateOfDay(row.date)))
    /\ TextLeq(FormatDate(DateOfDay(row.date)), to_date)

\* the indices of the rows WHERE DATE(date) >= ? AND DATE(date) <= ?
MatchRange(rows, from_date, to_date) ==
    {i \in 1..Len(rows) : InRange(rows[i], from_date, to_date)}

\* fault variant: every row up to the largest listed id matches
MatchIds_upto(rows, entry_ids) ==
    {i \in 1..Len(rows) : \E e \in entry_ids : rows[i].id <= e}

\* the indices of the rows WHERE id IN (?, ...)
MatchIds(rows, entry_ids) ==
    {i \in 1..Len(rows) : rows[i].id \in entry_ids}

\* fault variant: the delete also takes the removed amounts off the balance
WriteBack_adjusting(table, keep) ==
    /\ IF db_path = "ledger"
       THEN /\ transactions' = SelectRows(table.rows, keep)
            /\ current_balance' = current_balance
                   - SumAmounts(SelectRows(table.rows, (1..Len(table.rows)) \ keep))
            /\ UNCHANGED other
       ELSE /\ other' = [other EXCEPT !.rows = SelectRows(table.rows, keep)]
            /\ UNCHANGED <<transactions, current_balance>>
    /\ UNCHANGED <<sqlite_sequence, today, db_path>>

\* DELETE ... ; conn.commit(): the table keeps the rows whose index is in keep
WriteBack(table, keep) ==
    /\ IF db_path = "ledger"
       THEN /\ transactions' = SelectRows(table.rows, keep)
            /\ UNCHANGED other
       ELSE /\ other' = [other EXCEPT !.rows = SelectRows(table.rows, keep)]
            /\ UNCHANGED transactions
    /\ UNCHANGED <<current_balance, sqlite_sequence, today, db_path>>

NothingWritten ==
    UNCHANGED <<transactions, current_balance, sqlite_sequence, today, db_path, other>>

\* what clean_detailed_report returns, and the rows it leaves
DetailedReportError(from_date, to_date) ==
    IF validate_date(from_date) = Invalid \/ validate_date(to_date) = Invalid
    THEN "Incorrect date format"
    ELSE IF DateAfter(validate_date(from_date), validate_date(to_date))
    THEN "from_date must be before or equal to to_date"
    ELSE SqlError(CleanupTable, {"date"})

clean_detailed_report(from_date, to_date) ==
    LET err == DetailedReportError(from_date, to_date)
        table == CleanupTable
    IN  IF err # "None"
        THEN /\ last' = Call("clean_detailed_report", 0, {}, from_date, to_date, Failed(err))
             /\ NothingWritten
        ELSE LET hit == MatchRange(table.rows, from_date, to_date)
                 count_before == Cardinality(hit)
             IN  /\ WriteBack(table, (1..Len(table.rows)) \ hit)
                 /\ last' = Call("clean_detailed_report", 0, {}, from_date, to_date,
                                 Deleted(count_before))

\* fault variant: an empty id list is handed to the DELETE as it is
SpecificEntriesError_lenient(entry_ids) == SqlError(CleanupTable, {"id"})

\* if not entry_ids: "No entries specified for deletion"; else what the SQL raises
SpecificEntriesError(entry_ids) ==
    IF entry_ids = {} THEN "No entries specified for deletion"
    ELSE SqlError(CleanupTable, {"id"})

clean_specific_entries(entry_ids) ==
    LET err == SpecificEntriesError(entry_ids)
        table == CleanupTable
    IN  IF err # "None"
        THEN /\ last' = Call("clean_specific_entries", 0, entry_ids, <<>>, <<>>, Failed(err))
             /\ NothingWritten
        ELSE LET hit == MatchIds(table.rows, entry_ids)
                 count_before == Cardinality(hit)
             IN  /\ WriteBack(table, (1..Len(table.rows)) \ hit)
                 /\ last' = Call("clean_specific_entries", 0, entry_ids, <<>>, <<>>,
                                 Deleted(count_before))

\* the wall clock passes midnight
Midnight ==
    /\ today < FirstDay + MaxDays
    /\ today' = today + 1
    /\ UNCHANGED <<transactions, current_balance, sqlite_sequence, db_path, other, last>>

\* ------------------------------------------------------------------- Init
\* what the file DB_PATH names may hold when it is not the ledger file: no
\* transactions table (sqlite3.connect creates an empty file), or a table
\* with the columns report_cleanup.py's SQL names (no code of database.py
\* writes such a file; it is an input of report_cleanup.py)
RECURSIVE OtherRowSeqs(_)
OtherRowSeqs(n) ==
    IF n = 0 THEN {<<>>}
    ELSE LET shorter == OtherRowSeqs(n - 1)
         IN  shorter \cup
             {Append(s, [id |-> Len(s) + 1, date |-> d, amount |-> 75,
                         type |-> t, description |-> "Dog walk"]) :
                 s \in {x \in shorter : Len(x) = n - 1},
                 d \in Days, t \in {"walk"}}

OtherFiles ==
    {[exists |-> FALSE, columns |-> {}, rows |-> <<>>]}
        \cup {[exists |-> TRUE, columns |-> CleanupColumns, rows |-> s] :
                 s \in OtherRowSeqs(MaxOther)}

\* init_db on a fresh file: empty log, balance 0
LedgerInit ==
    /\ transactions = <<>>
    /\ current_balance = 0
    /\ sqlite_sequence = 0
    /\ today = FirstDay
    /\ last = NoCall

\* the connections _add_transaction may hold open at the same time
Conns == {"c1", "c2"}

Closed ==
    [pc |-> "closed", op |-> "none", given |-> 0, amount |-> 0, type |-> "none",
     description |-> "none", now |-> 0, rows |-> <<>>, seq |-> 0, balance |-> 0]

TxnIdle ==
    /\ conns = [p \in Conns |-> Closed]
    /\ observed = [rows |-> <<>>, balance |-> 0]

NoOtherFile == [exists |-> FALSE, columns |-> {}, rows |-> <<>>]

\* ------------------------------------------------- the chat bot at rest
\* the private chats that talk to the bot (chat id = user id)
Chats == DOMAIN state

\* the states of cleanup_conv_handler: range(4), and ConversationHandler.END
ASK_CLEANUP_OPTION == 0

ASK_CLEANUP_START_DATE == 1

ASK_CLEANUP_END_DATE == 2

CONFIRM_CLEANUP == 3

END == -1

\* an empty dict
EmptyData == [k \in {} |-> 0]

\* a message the bot sends: which text, the entry count and walk count it
\* quotes, the error text it quotes, the inline buttons under it
Reply(text, count, walks, error, buttons) ==
    [text |-> text, count |-> count, walks |-> walks, error |-> error,
     buttons |-> buttons]

NoReply == Reply("none", 0, 0, "None", {})

Update(chat, handler, data, text, reply) ==
    [chat |-> chat, handler |-> handler, data |-> data, text |-> text, reply |-> reply]

\* what a read of the store handed back to its caller
Returns(name, value) == [op |-> name, value |-> value]

NothingReturned == Returns("none", <<>>)

\* OLEDDisplayManager.__init__: the statistics cache before the first poll
EmptyStats == [total_walks |-> 0, walks_today |-> 0, total_earned |-> 0, current_balance |-> 0]

\* what bot_logic and the display hold in place of an object
None == "None"

\* self.notification_text = None: the display has no notification to show
NoNotification == [text |-> None, amount |-> 0]

\* the display object init_oled_display returns
OLEDDisplayManager == "OLEDDisplayManager"

\* no conversation open, every chat on the allow-list, nothing on the display
HandlersIdle(chats) ==
    /\ notification_text = NoNotification
    /\ credit_conv = [c \in chats |-> END]
    /\ cashout_conv = [c \in chats |-> END]
    /\ stats_cache = EmptyStats
    /\ current_screen = 0
    /\ weekly_job = "scheduled"
    /\ returned = NothingReturned
    /\ state = [c \in chats |-> END]
    /\ user_data = [c \in chats |-> EmptyData]
    /\ admins = chats
    /\ handled = Update(0, "none", "none", <<>>, NoReply)
    /\ shown = [c \in chats |-> {}]

\* setup_handlers(application): stats_manager and oled_display default to None
BotIdle(chats) ==
    /\ HandlersIdle(chats)
    /\ global_oled_display = None

StoreInit ==
    /\ LedgerInit
    /\ db_path \in {"ledger", "other"}
    /\ other \in (IF db_path = "ledger" THEN {NoOtherFile} ELSE OtherFiles)
    /\ TxnIdle
    /\ BotIdle(1 .. MaxChats)

StoreNext ==
    \/ \E a \in Amounts : add_walk(a) /\ UNCHANGED <<txn_vars, bot_vars>>
    \/ \E a \in Amounts : record_payment(a) /\ UNCHANGED <<txn_vars, bot_vars>>
    \/ \E a \in Amounts : record_credit_given(a) /\ UNCHANGED <<txn_vars, bot_vars>>
    \/ \E a \in BalanceInputs : set_initial_balance(a) /\ UNCHANGED <<txn_vars, bot_vars>>
    \/ \E r \in DateRanges : clean_detailed_report(r[1], r[2]) /\ UNCHANGED <<txn_vars, bot_vars>>
    \/ \E ids \in IdInputs : clean_specific_entries(ids) /\ UNCHANGED <<txn_vars, bot_vars>>
    \/ Midnight /\ UNCHANGED <<txn_vars, bot_vars>>

\* the ledger store and the cleanup primitives, called one at a time
Spec == StoreInit /\ [][StoreNext]_vars

\* ---------------------------------------- _add_transaction, step by step
\* conn = sqlite3.connect(DATABASE_NAME); now = datetime.now()
Connect(p, name, given, amount, transaction_type, description) ==
    /\ conns[p].pc = "closed"
    /\ conns' = [conns EXCEPT ![p] =
                    [Closed EXCEPT !.pc = "open", !.op = name, !.given = given,
                                   !.amount = amount, !.type = transaction_type,
                                   !.description = description, !.now = today]]
    /\ UNCHANGED <<store_vars, observed, bot_vars>>

\* fault variant: no connection ever waits for another's transaction
WriteLocked_never == FALSE

\* a connection holds the write lock from its first INSERT to its commit
WriteLocked == \E q \in Conns : conns[q].pc \in {"inserted", "updated"}

\* fault variant: the connection is in autocommit mode, the row is written at once
ExecuteInsert_autocommit(p) ==
    /\ conns[p].pc = "open"
    /\ ~WriteLocked
    /\ sqlite_sequence < MaxTxns
    /\ transactions' = InsertRow(transactions, sqlite_sequence, conns[p].now,
                                 conns[p].amount, conns[p].type, conns[p].description)
    /\ sqlite_sequence' = sqlite_sequence + 1
    /\ conns' = [conns EXCEPT ![p].pc = "inserted",
                              ![p].rows = transactions', ![p].seq = sqlite_sequence + 1]
    /\ UNCHANGED <<current_balance, today, db_path, other, last, observed, bot_vars>>

\* cursor.execute("INSERT ..."): sqlite3 opens a transaction first; the row is
\* in the connection's transaction, not yet in the file other connections read
ExecuteInsert(p) ==
    /\ conns[p].pc = "open"
    /\ ~WriteLocked
    /\ sqlite_sequence < MaxTxns
    /\ conns' = [conns EXCEPT
                    ![p].pc = "inserted",
                    ![p].rows = InsertRow(transactions, sqlite_sequence, conns[p].now,
                                          conns[p].amount, conns[p].type,
                                          conns[p].description),
                    ![p].seq = sqlite_sequence + 1]
    /\ UNCHANGED <<store_vars, observed, bot_vars>>

\* cursor.execute("UPDATE balances SET current_balance = current_balance + ?")
ExecuteUpdate(p) ==
    /\ conns[p].pc = "inserted"
    /\ conns' = [conns EXCEPT ![p].pc = "updated",
                              ![p].balance = UpdateBalance(current_balance, conns[p].amount)]
    /\ UNCHANGED <<store_vars, observed, bot_vars>>

\* conn.commit(); conn.close(); return True
Commit(p) ==
    /\ conns[p].pc = "updated"
    /\ transactions' = conns[p].rows
    /\ sqlite_sequence' = conns[p].seq
    /\ current_balance' = conns[p].balance
    /\ last' = Call(conns[p].op, conns[p].given, {}, <<>>, <<>>, Ok)
    /\ conns' = [conns EXCEPT ![p] = Closed]
    /\ UNCHANGED <<today, db_path, other, observed, bot_vars>>

\* an exception or a crash inside _add_transaction (a lock timeout, an I/O
\* error, the process dying): commit is never reached, and the connection's
\* transaction is rolled back
Fault(p) ==
    /\ conns[p].pc \in {"open", "inserted", "updated"}
    /\ last' = Call(conns[p].op, conns[p].given, {}, <<>>, <<>>,
                    Failed(IF conns[p].pc = "open" THEN "fault before INSERT"
                           ELSE IF conns[p].pc = "inserted" THEN "fault after INSERT"
                           ELSE "fault after UPDATE"))
    /\ conns' = [conns EXCEPT ![p] = Closed]
    /\ UNCHANGED <<transactions, current_balance, sqlite_sequence, today, db_path,
                   other, observed, bot_vars>>

\* another connection reads the log and the balance
Read ==
    /\ observed' = [rows |-> transactions, balance |-> current_balance]
    /\ UNCHANGED <<store_vars, conns, bot_vars>>

TxnInit ==
    /\ LedgerInit
    /\ db_path = "ledger"
    /\ other = NoOtherFile
    /\ TxnIdle
    /\ BotIdle(1 .. MaxChats)

TxnNext ==
    \/ \E p \in Conns, a \in Amounts :
           Connect(p, "add_walk", a, WalkAmount(a), "walk", "Dog walk")
    \/ \E p \in Conns, a \in Amounts :
           Connect(p, "record_payment", a, PaymentAmount(a), "payment", "Manual cash out")
    \/ \E p \in Conns : ExecuteInsert(p)
    \/ \E p \in Conns : ExecuteUpdate(p)
    \/ \E p \in Conns : Commit(p)
    \/ \E p \in Conns : Fault(p)
    \/ Read

\* appends by concurrent connections, with faults
SpecTxn == TxnInit /\ [][TxnNext]_vars

\* ================================================ the cleanup conversation
\* config.is_admin(chat_id): a lookup in the allow-list
is_admin(c) == c \in admins

\* the callback data of the buttons under the options message, less
\* cleanup_start, which the entry point takes first (allow_reentry)
OptionData ==
    {"cleanup_preset_week", "cleanup_preset_month", "cleanup_preset_10",
     "cleanup_custom", "cleanup_cancel"}

\* pattern="^cleanup_yes$|^cleanup_no$|^cleanup_confirm_entries$|^cleanup_cancel$"
ConfirmData == {"cleanup_yes", "cleanup_no", "cleanup_confirm_entries", "cleanup_cancel"}

\* pattern="^cleanup_": every callback data the cleanup messages carry
OptionPattern == OptionData \cup ConfirmData

\* the N of the "Last 10 Entries" preset
PresetCount == 10

\* timedelta(days=7), timedelta(days=30)
WeekDays == 7

MonthDays == 30

\* add_walk(amount=75.0)
DefaultWalk == 75

\* dict access: d.get(k, default), d[k] = v
Get(d, k, default) == IF k \in DOMAIN d THEN d[k] ELSE default

Put(d, k, v) == [x \in (DOMAIN d) \cup {k} |-> IF x = k THEN v ELSE d[x]]

\* ORDER BY date ASC (rows of one date in rowid order)
RECURSIVE OrderByDate(_, _)
OrderByDate(rows, hit) ==
    IF hit = {} THEN <<>>
    ELSE LET first == CHOOSE i \in hit :
                          \A j \in hit : \/ rows[i].date < rows[j].date
                                         \/ rows[i].date = rows[j].date /\ i <= j
         IN  <<rows[first]>> \o OrderByDate(rows, hit \ {first})

\* ORDER BY date DESC, id DESC
RECURSIVE OrderByRecent(_, _)
OrderByRecent(rows, hit) ==
    IF hit = {} THEN <<>>
    ELSE LET first == CHOOSE i \in hit :
                          \A j \in hit : \/ rows[i].date > rows[j].date
                                         \/ rows[i].date = rows[j].date
                                                /\ rows[i].id >= rows[j].id
         IN  <<rows[first]>> \o OrderByRecent(rows, hit \ {first})

\* LIMIT ?
Limit(s, n) == SubSeq(s, 1, IF Len(s) < n THEN Len(s) ELSE n)

\* the dict get_report_entries builds of a row (no id)
ReportEntry(row) ==
    [date |-> row.date, amount |-> row.amount, type |-> row.type,
     description |-> row.description]

\* the dict get_recent_entries builds of a row
RecentEntry(row) ==
    [id |-> row.id, date |-> row.date, amount |-> row.amount, type |-> row.type,
     description |-> row.description]

ReportEntries(s) == [i \in 1..Len(s) |-> ReportEntry(s[i])]

RecentEntries(s) == [i \in 1..Len(s) |-> RecentEntry(s[i])]

\* SELECT date, amount, type, description ... WHERE DATE(date) >= ? AND
\* DATE(date) <= ? ORDER BY date ASC; any exception is printed and [] returned
get_report_entries(from_date, to_date) ==
    LET table == CleanupTable
    IN  IF SqlError(table, {"date", "amount", "type", "description"}) # "None"
        THEN <<>>
        ELSE ReportEntries(OrderByDate(table.rows,
                                       MatchRange(table.rows, from_date, to_date)))

\* SELECT id, date, amount, type, description ... ORDER BY date DESC, id DESC
\* LIMIT ?; any exception is printed and [] returned
get_recent_entries(count) ==
    LET table == CleanupTable
    IN  IF SqlError(table, {"id", "date", "amount", "type", "description"}) # "None"
        THEN <<>>
        ELSE RecentEntries(Limit(OrderByRecent(table.rows, 1..Len(table.rows)), count))

\* the ids of the rows a range query lists (the entries themselves carry none)
RangeIds(from_date, to_date) ==
    LET table == CleanupTable
    IN  IF SqlError(table, {"date"}) # "None" THEN {}
        ELSE {table.rows[i].id : i \in MatchRange(table.rows, from_date, to_date)}

Walks(entries) == {i \in 1..Len(entries) : entries[i].type = "walk"}

\* a handler that calls no mutator and no delete primitive
NoStoreCall == NothingWritten /\ UNCHANGED last

\* what every handler leaves behind: the state it returns (its own state when
\* it returns None), the session dict, the message it sent
Finish(c, handler, data, text, reply, next, ud) ==
    /\ state' = [state EXCEPT ![c] = next]
    /\ user_data' = [user_data EXCEPT ![c] = ud]
    /\ handled' = Update(c, handler, data, text, reply)
    /\ UNCHANGED <<admins, txn_vars, app_vars>>

\* query.answer("Access denied.", show_alert=True) / reply_text("Access denied.");
\* return ConversationHandler.END
Deny(c, handler, data, text) ==
    /\ Finish(c, handler, data, text, Reply("Access denied.", 0, 0, "None", {}),
              END, user_data[c])
    /\ NoStoreCall
    /\ UNCHANGED shown

\* fault variant: the session dict is left as the last run left it
ClearedData_kept(ud) == ud

\* context.user_data.clear()
ClearedData(ud) == EmptyData

\* entry point: the cleanup_start button, or the keyboard button's text;
\* with allow_reentry it is matched first in every state
cleanup_start_callback(c, via) ==
    IF ~is_admin(c)
    THEN Deny(c, "cleanup_start_callback", via, <<>>)
    ELSE /\ Finish(c, "cleanup_start_callback", via, <<>>,
                   Reply("Admin Cleanup Options", 0, 0, "None", OptionData),
                   ASK_CLEANUP_OPTION, ClearedData(user_data[c]))
         /\ shown' = [shown EXCEPT ![c] = {}]
         /\ NoStoreCall

\* fault variant: an empty result is previewed like any other
NoEntries_never(entries) == FALSE

\* if not entries:
NoEntries(entries) == entries = <<>>

\* credits = [e for e in entries if e["type"] == "credit"]
Credits(entries) == {i \in 1..Len(entries) : entries[i].type = "credit"}

\* payments = [e for e in entries if e["type"] == "payment"]
Payments(entries) == {i \in 1..Len(entries) : entries[i].type = "payment"}

\* the preview message: total entries, walks, credits, payments, two buttons
PreviewReply(entries) ==
    [text |-> "Cleanup Preview", count |-> Len(entries),
     walks |-> Cardinality(Walks(entries)), error |-> "None",
     buttons |-> {"cleanup_yes", "cleanup_no"},
     credits |-> Cardinality(Credits(entries)),
     payments |-> Cardinality(Payments(entries))]

\* show_cleanup_preview and show_cleanup_preview_text: the range preview
RangePreview(c, handler, data, text, ud) ==
    LET from_date == ud["cleanup_start_date"]
        to_date   == ud["cleanup_end_date"]
        entries   == get_report_entries(from_date, to_date)
        walks     == Walks(entries)
    IN  /\ IF NoEntries(entries)
           THEN /\ Finish(c, handler, data, text,
                          Reply("No entries found", 0, 0, "None", {}), END, ud)
                /\ shown' = [shown EXCEPT ![c] = {}]
           ELSE /\ Finish(c, handler, data, text,
                          PreviewReply(entries),
                          CONFIRM_CLEANUP,
                          Put(Put(ud, "cleanup_walk_count", Cardinality(walks)),
                              "cleanup_total_entries", Len(entries)))
                /\ shown' = [shown EXCEPT ![c] = RangeIds(from_date, to_date)]
        /\ NoStoreCall

show_cleanup_preview(c, data, ud) ==
    RangePreview(c, "cleanup_option_chosen", data, <<>>, ud)

show_cleanup_preview_text(c, text, ud) ==
    RangePreview(c, "cleanup_get_end_date", "text", text, ud)

show_last_entries_preview(c, data, ud, count) ==
    LET entries == get_recent_entries(count)
        walks   == Walks(entries)
    IN  /\ IF NoEntries(entries)
           THEN /\ Finish(c, "cleanup_option_chosen", data, <<>>,
                          Reply("No entries found to cleanup.", 0, 0, "None", {}),
                          END, ud)
                /\ shown' = [shown EXCEPT ![c] = {}]
           ELSE /\ Finish(c, "cleanup_option_chosen", data, <<>>,
                          Reply("Last Entries Preview", Len(entries), Cardinality(walks),
                                "None", {"cleanup_confirm_entries", "cleanup_cancel"}),
                          CONFIRM_CLEANUP, Put(ud, "cleanup_entries", entries))
                /\ shown' = [shown EXCEPT ![c] = {entries[i].id : i \in 1..Len(entries)}]
        /\ NoStoreCall

\* strftime("%Y-%m-%d") of today - timedelta(days=n)
DaysAgo(n) == FormatDate(DateOfDay(today - n))

Preset(ud, days, name) ==
    Put(Put(Put(ud, "cleanup_start_date", DaysAgo(days)),
            "cleanup_end_date", DaysAgo(0)),
        "cleanup_type", name)

OptionBody(c, data) ==
    LET ud == user_data[c]
    IN  IF data = "cleanup_cancel"
        THEN /\ Finish(c, "cleanup_option_chosen", data, <<>>,
                       Reply("Cleanup cancelled.", 0, 0, "None", {}), END, ud)
             /\ NoStoreCall
             /\ UNCHANGED shown
        ELSE IF data = "cleanup_preset_week"
        THEN show_cleanup_preview(c, data, Preset(ud, WeekDays, "Last Week"))
        ELSE IF data = "cleanup_preset_month"
        THEN show_cleanup_preview(c, data, Preset(ud, MonthDays, "Last Month"))
        ELSE IF data = "cleanup_preset_10"
        THEN show_last_entries_preview(c, data,
                                       Put(ud, "cleanup_type", "Last 10 Entries"),
                                       PresetCount)
        ELSE IF data = "cleanup_custom"
        THEN /\ Finish(c, "cleanup_option_chosen", data, <<>>,
                       Reply("Enter START date", 0, 0, "None", {}),
                       ASK_CLEANUP_START_DATE, Put(ud, "cleanup_type", "Custom Range"))
             /\ NoStoreCall
             /\ UNCHANGED shown
        ELSE \* no branch matches: the handler returns None, the state stays
             /\ Finish(c, "cleanup_option_chosen", data, <<>>, NoReply, state[c], ud)
             /\ NoStoreCall
             /\ UNCHANGED shown

\* states[ASK_CLEANUP_OPTION]
cleanup_option_chosen(c, data) ==
    /\ state[c] = ASK_CLEANUP_OPTION
    /\ data \in OptionPattern
    /\ IF ~is_admin(c)
       THEN Deny(c, "cleanup_option_chosen", data, <<>>)
       ELSE OptionBody(c, data)

\* fault variant: an accepted start date goes straight to the preview state
AfterStartDate_preview == CONFIRM_CLEANUP

\* what cleanup_get_start_date returns once the start date is stored
AfterStartDate == ASK_CLEANUP_END_DATE

\* states[ASK_CLEANUP_START_DATE]: a text message that is not a command
cleanup_get_start_date(c, text) ==
    /\ state[c] = ASK_CLEANUP_START_DATE
    /\ IF ~is_admin(c)
       THEN Deny(c, "cleanup_get_start_date", "text", text)
       ELSE /\ IF validate_date(text) # Invalid
               THEN Finish(c, "cleanup_get_start_date", "text", text,
                           Reply("Start date set", 0, 0, "None", {}),
                           AfterStartDate,
                           Put(user_data[c], "cleanup_start_date", text))
               ELSE Finish(c, "cleanup_get_start_date", "text", text,
                           Reply("Invalid date format", 0, 0, "Incorrect date format", {}),
                           ASK_CLEANUP_START_DATE, user_data[c])
            /\ NoStoreCall
            /\ UNCHANGED shown

\* states[ASK_CLEANUP_END_DATE]: a text message that is not a command
cleanup_get_end_date(c, text) ==
    /\ state[c] = ASK_CLEANUP_END_DATE
    /\ IF ~is_admin(c)
       THEN Deny(c, "cleanup_get_end_date", "text", text)
       ELSE LET ud == user_data[c]
                end_dt == validate_date(text)
                start_dt == validate_date(ud["cleanup_start_date"])
            IN  IF end_dt = Invalid \/ start_dt = Invalid
                THEN /\ Finish(c, "cleanup_get_end_date", "text", text,
                               Reply("Invalid date format", 0, 0,
                                     "Incorrect date format", {}),
                               ASK_CLEANUP_END_DATE, ud)
                     /\ NoStoreCall
                     /\ UNCHANGED shown
                ELSE IF DateAfter(start_dt, end_dt)
                THEN /\ Finish(c, "cleanup_get_end_date", "text", text,
                               Reply("End date must be after start date", 0, 0, "None", {}),
                               ASK_CLEANUP_END_DATE, ud)
                     /\ NoStoreCall
                     /\ UNCHANGED shown
                ELSE show_cleanup_preview_text(c, text, Put(ud, "cleanup_end_date", text))

\* fault variant: a failed deletion leaves the preview state open
AfterConfirm_retry(result) == IF result.success THEN END ELSE CONFIRM_CLEANUP

\* the return at the end of cleanup_confirm, whatever the primitive returned
AfterConfirm(result) == END

\* the last-N branch of cleanup_confirm: delete the ids kept in the session
ConfirmEntries(c, data) ==
    LET ud == user_data[c]
        entries == Get(ud, "cleanup_entries", <<>>)
    IN  IF entries = <<>>
        THEN /\ Finish(c, "cleanup_confirm", data, <<>>,
                       Reply("No entries to delete.", 0, 0, "None", {}), END, ud)
             /\ NoStoreCall
        ELSE /\ clean_specific_entries({entries[i].id : i \in 1..Len(entries)})
             /\ LET result == last'.ret
                    deleted_count == Len(entries)
                    walks_deleted == Cardinality(Walks(entries))
                IN  Finish(c, "cleanup_confirm", data, <<>>,
                           IF result.success
                           THEN Reply("Successfully deleted", deleted_count,
                                      walks_deleted, "None", {})
                           ELSE Reply("Failed to delete entries", 0, 0, result.error, {}),
                           AfterConfirm(result), ud)

\* the date branch of cleanup_confirm: delete the range kept in the session
ConfirmRange(c, data) ==
    LET ud == user_data[c]
    IN  IF ~({"cleanup_start_date", "cleanup_end_date"} \subseteq DOMAIN ud)
        THEN \* KeyError, caught by the handler's except
             /\ Finish(c, "cleanup_confirm", data, <<>>,
                       Reply("Cleanup failed", 0, 0, "KeyError", {}), END, ud)
             /\ NoStoreCall
        ELSE /\ clean_detailed_report(ud["cleanup_start_date"], ud["cleanup_end_date"])
             /\ LET result == last'.ret
                IN  Finish(c, "cleanup_confirm", data, <<>>,
                           IF result.success
                           THEN Reply("Cleanup Complete",
                                      Get(ud, "cleanup_total_entries", result.deleted_count),
                                      Get(ud, "cleanup_walk_count", 0), "None", {})
                           ELSE Reply("Cleanup Failed", 0, 0, result.error, {}),
                           AfterConfirm(result), ud)

\* fault variant: either confirm input runs the branch the session has data for
ConfirmBody_merged(c, data) ==
    /\ IF data \in {"cleanup_yes", "cleanup_confirm_entries"}
       THEN IF "cleanup_entries" \in DOMAIN user_data[c]
            THEN ConfirmEntries(c, data)
            ELSE ConfirmRange(c, data)
       ELSE /\ Finish(c, "cleanup_confirm", data, <<>>,
                      Reply("Cleanup cancelled.", 0, 0, "None", {}), END, user_data[c])
            /\ NoStoreCall
    /\ UNCHANGED shown

\* fault variant: a decline input runs the date branch too
ConfirmBody_declining(c, data) ==
    /\ IF data = "cleanup_confirm_entries" THEN ConfirmEntries(c, data)
       ELSE ConfirmRange(c, data)
    /\ UNCHANGED shown

ConfirmBody(c, data) ==
    /\ IF data = "cleanup_confirm_entries" THEN ConfirmEntries(c, data)
       ELSE IF data = "cleanup_yes" THEN ConfirmRange(c, data)
       ELSE /\ Finish(c, "cleanup_confirm", data, <<>>,
                      Reply("Cleanup cancelled.", 0, 0, "None", {}), END, user_data[c])
            /\ NoStoreCall
    /\ UNCHANGED shown

\* fault variant: the confirm step does not look at the caller's role
cleanup_confirm_unchecked(c, data) ==
    /\ state[c] = CONFIRM_CLEANUP
    /\ data \in ConfirmData
    /\ ConfirmBody(c, data)

\* states[CONFIRM_CLEANUP]
cleanup_confirm(c, data) ==
    /\ state[c] = CONFIRM_CLEANUP
    /\ data \in ConfirmData
    /\ IF ~is_admin(c)
       THEN Deny(c, "cleanup_confirm", data, <<>>)
       ELSE ConfirmBody(c, data)

\* /addwalk: a command passes every cleanup state's text filter
add_walk_command(c) ==
    /\ add_walk(DefaultWalk)
    /\ handled' = Update(c, "add_walk_command", "/addwalk", <<>>,
                         Reply("Walk recorded", 0, 0, "None", {}))
    /\ UNCHANGED <<state, user_data, admins, shown, txn_vars, app_vars>>

\* the allow-list loses a chat
Revoke(c) ==
    /\ c \in admins
    /\ admins' = admins \ {c}
    /\ UNCHANGED <<store_vars, txn_vars, state, user_data, handled, shown, app_vars>>

\* fallbacks=[CommandHandler("cancel", lambda u, c: ConversationHandler.END)]:
\* matched in every state of an open conversation no state handler takes
\* commands in; the lambda is not a coroutine function, awaiting the int it
\* returns raises TypeError, the conversation keeps its state and the error
\* handler answers
cancel_fallback(c) ==
    /\ state[c] # END
    /\ Finish(c, "cancel_fallback", "/cancel", <<>>,
              Reply("Oops! Something went wrong", 0, 0, "TypeError", {}),
              state[c], user_data[c])
    /\ NoStoreCall
    /\ UNCHANGED shown

\* the file DB_PATH names is lost; the next sqlite3.connect(DB_PATH) creates
\* an empty one
StorageFault ==
    /\ db_path = "other"
    /\ other.exists
    /\ other' = NoOtherFile
    /\ UNCHANGED <<transactions, current_balance, sqlite_sequence, today, db_path, last,
                   txn_vars, bot_vars>>

BotNext ==
    \/ \E c \in Chats, via \in {"cleanup_start", "text"} : cleanup_start_callback(c, via)
    \/ \E c \in Chats, data \in OptionPattern : cleanup_option_chosen(c, data)
    \/ \E c \in Chats, text \in DateInputs : cleanup_get_start_date(c, text)
    \/ \E c \in Chats, text \in DateInputs : cleanup_get_end_date(c, text)
    \/ \E c \in Chats, data \in ConfirmData : cleanup_confirm(c, data)
    \/ \E c \in Chats : add_walk_command(c)
    \/ \E c \in Chats : Revoke(c)
    \/ \E c \in Chats : cancel_fallback(c)
    \/ StorageFault
    \/ Midnight /\ UNCHANGED <<txn_vars, bot_vars>>

\* one operator's cleanup conversation over the store
SpecBot == StoreInit /\ [][BotNext]_vars

\* several operators at once, on a DB_PATH file whose table the cleanup
\* queries can read
OperatorsInit ==
    /\ LedgerInit
    /\ db_path = "other"
    /\ other \in {f \in OtherFiles : f.exists}
    /\ TxnIdle
    /\ BotIdle(1 .. MaxOperators)

OperatorsNext ==
    \/ \E c \in Chats, via \in {"cleanup_start", "text"} : cleanup_start_callback(c, via)
    \/ \E c \in Chats, data \in OptionPattern : cleanup_option_chosen(c, data)
    \/ \E c \in Chats, text \in DateInputs : cleanup_get_start_date(c, text)
    \/ \E c \in Chats, text \in DateInputs : cleanup_get_end_date(c, text)
    \/ \E c \in Chats, data \in ConfirmData : cleanup_confirm(c, data)
    \/ \E c \in Chats : add_walk_command(c)

SpecOperators == OperatorsInit /\ [][OperatorsNext]_vars

\* ------------------------------------------ a DB_PATH file of ledger kinds
\* the kinds the ledger mutators write
LedgerKinds == {"walk", "payment", "credit_given"}

\* tables with the date column whose rows carry the kinds the ledger writes
RECURSIVE KindRowSeqs(_)
KindRowSeqs(n) ==
    IF n = 0 THEN {<<>>}
    ELSE LET shorter == KindRowSeqs(n - 1)
         IN  shorter \cup
             {Append(s, [id |-> Len(s) + 1, date |-> FirstDay,
                         amount |-> IF t = "walk" THEN 75 ELSE -30,
                         type |-> t, description |-> "none"]) :
                 s \in {x \in shorter : Len(x) = n - 1}, t \in LedgerKinds}

PreviewInit ==
    /\ LedgerInit
    /\ db_path = "other"
    /\ other \in {[exists |-> TRUE, columns |-> CleanupColumns, rows |-> s] :
                      s \in KindRowSeqs(MaxTxns)}
    /\ TxnIdle
    /\ BotIdle(1 .. MaxChats)

\* one operator's cleanup conversation over such a file
SpecPreview == PreviewInit /\ [][OperatorsNext]_vars

\* ===================================== the credit and cash-out conversations
\* the states of credit_conv_handler and cashout_conv_handler: range(2), range(3)
ASK_CREDIT_AMOUNT == 0

ASK_CASHOUT_TYPE == 0

ASK_MANUAL_CASHOUT_AMOUNT == 1

\* the text "nan"
NaNText == <<110, 97, 110>>

\* the message texts tried as amounts: "30", "-30", "0", "-", "nan"
AmountTexts == {<<Zero + 3, Zero>>, <<Dash, Zero + 3, Zero>>, <<Zero>>, Garbage, NaNText}

RECURSIVE DigitsValue(_)
DigitsValue(s) ==
    IF s = <<>> THEN 0
    ELSE 10 * DigitsValue(SubSeq(s, 1, Len(s) - 1)) + (s[Len(s)] - Zero)

AllDigits(s) == s # <<>> /\ \A i \in 1..Len(s) : IsDigit(s[i])

\* float(text) raised ValueError
ValueError == [ok |-> FALSE, nan |-> FALSE, value |-> 0]

\* float(text): an optional sign and digits, or "nan"; anything else raises
float(text) ==
    IF text = NaNText THEN [ok |-> TRUE, nan |-> TRUE, value |-> 0]
    ELSE LET signed == text # <<>> /\ text[1] = Dash
             digits == IF signed THEN Tail(text) ELSE text
         IN  IF ~AllDigits(digits) THEN ValueError
             ELSE [ok |-> TRUE, nan |-> FALSE,
                   value |-> IF signed THEN -DigitsValue(digits) ELSE DigitsValue(digits)]

\* where a call of the store may raise inside a handler: nowhere, in the
\* mutator (nothing is committed), in the get_current_balance after it
Faults == {"none", "write", "read"}

\* a mutator that raised before its commit: sqlite3.OperationalError for a
\* locked or unwritable file, IntegrityError for a NaN amount (bound as NULL)
Raised(name, amount, msg) ==
    /\ NothingWritten
    /\ last' = Call(name, amount, {}, <<>>, <<>>, Failed(msg))

\* a message that quotes an amount and the balance
BalanceReply(text, amount, balance) ==
    [text |-> text, count |-> 0, walks |-> 0, error |-> "None", buttons |-> {},
     amount |-> amount, balance |-> balance]

\* what a handler outside the cleanup conversation leaves behind, the
\* display's notification aside
Answered(c, handler, data, text, reply) ==
    /\ handled' = Update(c, handler, data, text, reply)
    /\ UNCHANGED <<state, user_data, admins, shown, txn_vars, display_vars,
                   global_oled_display, returned>>

\* a handler that does not call the display
Answer(c, handler, data, text, reply) ==
    /\ Answered(c, handler, data, text, reply)
    /\ UNCHANGED notification_text

\* the text of a notification: what happened and the amount, f"{amount:.0f}"
Notification(what, amount) == [text |-> what, amount |-> amount]

\* fault variant: the display takes the balance for what it shows
show_notification_settling(text) ==
    /\ notification_text' = text
    /\ current_balance' = text.amount

\* OLEDDisplayManager.show_notification: under the display's lock, the text
\* and its end time are stored; nothing else is touched
show_notification(text) == notification_text' = text

\* if global_oled_display: global_oled_display.show_notification(...)
Notify(oled_display, text) ==
    IF oled_display # None THEN show_notification(text)
    ELSE UNCHANGED notification_text

\* entry point of credit_conv_handler, the first handler registered: /credit
\* or the keyboard button, in any state (allow_reentry)
credit_start(c) ==
    /\ Answer(c, "credit_start", "/credit", <<>>,
              Reply("Please enter the credit amount", 0, 0, "None", {}))
    /\ credit_conv' = [credit_conv EXCEPT ![c] = ASK_CREDIT_AMOUNT]
    /\ NoStoreCall
    /\ UNCHANGED cashout_conv

\* fault variant: a rejected amount ends the conversation
AfterBadAmount_end(asked) == END

\* the state returned after a rejected amount: the one that asked
AfterBadAmount(asked) == asked

\* states[ASK_CREDIT_AMOUNT]: a text message that is not a command, run with
\* oled_display as the value of global_oled_display
receive_credit_amount_with(c, text, fault, oled_display) ==
    /\ credit_conv[c] = ASK_CREDIT_AMOUNT
    /\ LET amount == float(text)
           Stay(msg) ==
               /\ Answer(c, "receive_credit_amount", "text", text,
                         Reply(msg, 0, 0, "None", {}))
               /\ credit_conv' = [credit_conv EXCEPT
                                     ![c] = AfterBadAmount(ASK_CREDIT_AMOUNT)]
               /\ NoStoreCall
           Done(reply) ==
               /\ Answer(c, "receive_credit_amount", "text", text, reply)
               /\ credit_conv' = [credit_conv EXCEPT ![c] = END]
           ErrorReply(e) == Reply("An error occurred. Please try again.", 0, 0, e, {})
       IN  IF ~amount.ok THEN Stay("Invalid amount format. Please enter a number.")
           ELSE IF ~amount.nan /\ amount.value <= 0
           THEN Stay("Credit amount must be positive. Please try again.")
           ELSE IF amount.nan
           THEN /\ Raised("record_credit_given", 0,
                          "NOT NULL constraint failed: transactions.amount")
                /\ Done(ErrorReply(last'.ret.error))
           ELSE IF fault = "write"
           THEN /\ Raised("record_credit_given", amount.value, "database is locked")
                /\ Done(ErrorReply(last'.ret.error))
           ELSE /\ _add_transaction("record_credit_given", amount.value,
                                    CreditAmount(amount.value), "credit_given",
                                    "Credit (advance)")
                /\ IF fault = "read" THEN Done(ErrorReply("disk I/O error"))
                   ELSE /\ Answered(c, "receive_credit_amount", "text", text,
                                     BalanceReply("Credit recorded", amount.value,
                                                  current_balance'))
                        /\ Notify(oled_display, Notification("Credit", amount.value))
                        /\ credit_conv' = [credit_conv EXCEPT ![c] = END]
    /\ UNCHANGED cashout_conv

receive_credit_amount(c, text, fault) ==
    receive_credit_amount_with(c, text, fault, global_oled_display)

\* fallbacks of credit_conv_handler: any command, in an open conversation
credit_cancel(c) ==
    /\ credit_conv[c] # END
    /\ Answer(c, "credit_cancel", "/cancel", <<>>,
              Reply("Operation Give Credit cancelled", 0, 0, "None", {}))
    /\ credit_conv' = [credit_conv EXCEPT ![c] = END]
    /\ NoStoreCall
    /\ UNCHANGED cashout_conv

\* entry point of cashout_conv_handler: /cashout is a command the credit
\* conversation's fallback takes first when that conversation is open
cashout_start(c) ==
    /\ credit_conv[c] = END
    /\ Answer(c, "cashout_start", "/cashout", <<>>,
              [text |-> "Current amount to be paid out", count |-> 0, walks |-> 0,
               error |-> "None", buttons |-> {"cashout_all", "cashout_manual"},
               amount |-> 0, balance |-> get_current_balance])
    /\ cashout_conv' = [cashout_conv EXCEPT ![c] = ASK_CASHOUT_TYPE]
    /\ NoStoreCall
    /\ UNCHANGED credit_conv

\* every callback data a message of the bot carries
ButtonData == {"cashout_all", "cashout_manual", "cleanup_start"} \cup OptionPattern

\* the error handler's reply to an exception no handler caught
Oops(e) == Reply("Oops! Something went wrong", 0, 0, e, {})

\* fault variant: only a balance of exactly zero is left alone
NothingToPay_zero(balance) == balance = 0

\* if current_balance <= 0: "Nothing to pay out."
NothingToPay(balance) == balance <= 0

\* states[ASK_CASHOUT_TYPE]: CallbackQueryHandler(cashout_type_chosen), no
\* pattern: every callback query of the chat; no try/except around the store;
\* run with oled_display as the value of global_oled_display
cashout_type_chosen_with(c, data, fault, oled_display) ==
    /\ cashout_conv[c] = ASK_CASHOUT_TYPE
    /\ data \in ButtonData
    /\ LET Leave(reply, next) ==
               /\ Answer(c, "cashout_type_chosen", data, <<>>, reply)
               /\ cashout_conv' = [cashout_conv EXCEPT ![c] = next]
           balance == get_current_balance
       IN  IF data = "cashout_all"
           THEN IF fault = "read"
                THEN Leave(Oops("disk I/O error"), ASK_CASHOUT_TYPE) /\ NoStoreCall
                ELSE IF NothingToPay(balance)
                THEN Leave(BalanceReply("Nothing to pay out", 0, balance), END) /\ NoStoreCall
                ELSE IF fault = "write"
                THEN /\ Raised("record_payment", balance, "database is locked")
                     /\ Leave(Oops(last'.ret.error), ASK_CASHOUT_TYPE)
                ELSE /\ _add_transaction("record_payment", balance, PaymentAmount(balance),
                                         "payment", "Full settlement")
                     /\ Answered(c, "cashout_type_chosen", data, <<>>,
                                 BalanceReply("was paid out", balance, current_balance'))
                     /\ Notify(oled_display, Notification("Paid Out", balance))
                     /\ cashout_conv' = [cashout_conv EXCEPT ![c] = END]
           ELSE IF data = "cashout_manual"
           THEN /\ Leave(Reply("Please enter the amount to pay out", 0, 0, "None", {}),
                         ASK_MANUAL_CASHOUT_AMOUNT)
                /\ NoStoreCall
           ELSE \* neither branch: query.answer(), the handler returns None
                Leave(NoReply, ASK_CASHOUT_TYPE) /\ NoStoreCall
    /\ UNCHANGED credit_conv

cashout_type_chosen(c, data, fault) ==
    cashout_type_chosen_with(c, data, fault, global_oled_display)

\* states[ASK_MANUAL_CASHOUT_AMOUNT]: a text message that is not a command,
\* unless the credit conversation, registered first, is waiting for one; run
\* with oled_display as the value of global_oled_display
receive_manual_cashout_amount_with(c, text, fault, oled_display) ==
    /\ credit_conv[c] = END
    /\ cashout_conv[c] = ASK_MANUAL_CASHOUT_AMOUNT
    /\ LET amount == float(text)
           Stay(msg) ==
               /\ Answer(c, "receive_manual_cashout_amount", "text", text,
                         Reply(msg, 0, 0, "None", {}))
               /\ cashout_conv' = [cashout_conv EXCEPT
                                      ![c] = AfterBadAmount(ASK_MANUAL_CASHOUT_AMOUNT)]
               /\ NoStoreCall
           Done(reply) ==
               /\ Answer(c, "receive_manual_cashout_amount", "text", text, reply)
               /\ cashout_conv' = [cashout_conv EXCEPT ![c] = END]
           ErrorReply(e) == Reply("An error occurred. Please try again.", 0, 0, e, {})
       IN  IF ~amount.ok THEN Stay("Invalid amount format. Please enter a number.")
           ELSE IF ~amount.nan /\ amount.value = 0
           THEN Stay("Amount must be greater than zero. Please try again.")
           ELSE IF amount.nan
           THEN /\ Raised("record_payment", 0,
                          "NOT NULL constraint failed: transactions.amount")
                /\ Done(ErrorReply(last'.ret.error))
           ELSE IF fault = "write"
           THEN /\ Raised("record_payment", amount.value, "database is locked")
                /\ Done(ErrorReply(last'.ret.error))
           ELSE /\ _add_transaction("record_payment", amount.value,
                                    PaymentAmount(amount.value), "payment",
                                    "Manual cash out")
                /\ IF fault = "read" THEN Done(ErrorReply("disk I/O error"))
                   ELSE /\ Answered(c, "receive_manual_cashout_amount", "text", text,
                                     BalanceReply("Recorded payout", amount.value,
                                                  current_balance'))
                        /\ Notify(oled_display, Notification("Cash Out", amount.value))
                        /\ cashout_conv' = [cashout_conv EXCEPT ![c] = END]
    /\ UNCHANGED credit_conv

receive_manual_cashout_amount(c, text, fault) ==
    receive_manual_cashout_amount_with(c, text, fault, global_oled_display)

\* fallbacks of cashout_conv_handler: any command the credit conversation
\* leaves, in an open conversation
cashout_cancel(c) ==
    /\ credit_conv[c] = END
    /\ cashout_conv[c] # END
    /\ Answer(c, "cashout_cancel", "/cancel", <<>>,
              Reply("Operation Cash Out cancelled", 0, 0, "None", {}))
    /\ cashout_conv' = [cashout_conv EXCEPT ![c] = END]
    /\ NoStoreCall
    /\ UNCHANGED credit_conv

\* ============================================== commands, reports, restart
\* ORDER BY timestamp (rows of one timestamp in rowid order)
RECURSIVE OrderByTimestamp(_, _)
OrderByTimestamp(rows, hit) ==
    IF hit = {} THEN <<>>
    ELSE LET first == CHOOSE i \in hit :
                          \A j \in hit : \/ rows[i].timestamp < rows[j].timestamp
                                         \/ rows[i].timestamp = rows[j].timestamp /\ i <= j
         IN  <<rows[first]>> \o OrderByTimestamp(rows, hit \ {first})

\* SELECT timestamp, amount, type, description FROM transactions ORDER BY timestamp
get_all_transactions_for_report == OrderByTimestamp(transactions, 1..Len(transactions))

OfKinds(rows, kinds) == {i \in 1..Len(rows) : rows[i].type \in kinds}

\* the message of detailed_report_command: walk count, walk total, balance,
\* total of payments and credits
ReportReply(walk_count, walk_total_amount, balance, total_payment_credit_amount) ==
    [text |-> "Detailed Report", count |-> 0, walks |-> walk_count, error |-> "None",
     buttons |-> {}, walk_total_amount |-> walk_total_amount, balance |-> balance,
     total_payment_credit_amount |-> total_payment_credit_amount]

\* a command no open credit or cash-out conversation takes as its fallback
CommandPasses(c) == credit_conv[c] = END /\ cashout_conv[c] = END

\* /report
detailed_report_command(c) ==
    /\ CommandPasses(c)
    /\ LET rows == get_all_transactions_for_report
       IN  Answer(c, "detailed_report_command", "/report", <<>>,
                  ReportReply(Cardinality(OfKinds(rows, {"walk"})),
                              SumAmounts(SelectRows(rows, OfKinds(rows, {"walk"}))),
                              get_current_balance,
                              SumAmounts(SelectRows(rows, OfKinds(rows, {"credit", "payment"})))))
    /\ NoStoreCall
    /\ UNCHANGED conv_vars

\* /balance
balance_command(c) ==
    /\ CommandPasses(c)
    /\ Answer(c, "balance_command", "/balance", <<>>,
              BalanceReply("Current balance", 0, get_current_balance))
    /\ NoStoreCall
    /\ UNCHANGED conv_vars

\* /setinitial: asks for the amount and raises the session's flag
set_initial_balance_command(c) ==
    /\ user_data' = [user_data EXCEPT
                        ![c] = Put(user_data[c], "await_initial_balance", TRUE)]
    /\ handled' = Update(c, "set_initial_balance_command", "/setinitial", <<>>,
                         Reply("Please enter the initial balance", 0, 0, "None", {}))
    /\ NoStoreCall
    /\ UNCHANGED <<state, admins, shown, txn_vars, app_vars>>

\* MessageHandler(filters.TEXT & filters.Regex(r"^\d+(\.\d+)?$")), the last
\* handler registered: a text of digits no open conversation takes
receive_initial_balance(c, text) ==
    /\ AllDigits(text)
    /\ credit_conv[c] = END
    /\ cashout_conv[c] # ASK_MANUAL_CASHOUT_AMOUNT
    /\ state[c] \notin {ASK_CLEANUP_START_DATE, ASK_CLEANUP_END_DATE}
    /\ set_initial_balance(float(text).value)
    /\ handled' = Update(c, "receive_initial_balance", "text", text,
                         BalanceReply("Initial balance set", float(text).value,
                                      float(text).value))
    /\ user_data' = [user_data EXCEPT
                        ![c] = Put(user_data[c], "await_initial_balance", FALSE)]
    /\ UNCHANGED <<state, admins, shown, txn_vars, app_vars>>

\* fault variant: the tables are created afresh
init_db_recreating ==
    /\ transactions' = <<>>
    /\ current_balance' = 0
    /\ UNCHANGED <<sqlite_sequence, today, db_path, other>>

\* CREATE TABLE IF NOT EXISTS ...; INSERT OR IGNORE INTO balances ...: on a
\* file that has the tables, nothing changes
init_db == NothingWritten

\* main(): the process starts again over the same files; conversations and
\* user_data live in memory and start empty
main ==
    /\ init_db
    /\ last' = Call("init_db", 0, {}, <<>>, <<>>, Ok)
    /\ state' = [c \in Chats |-> END]
    /\ user_data' = [c \in Chats |-> EmptyData]
    /\ credit_conv' = [c \in Chats |-> END]
    /\ cashout_conv' = [c \in Chats |-> END]
    /\ handled' = Update(0, "main", "none", <<>>, NoReply)
    /\ stats_cache' = EmptyStats
    /\ current_screen' = 0
    /\ weekly_job' = "scheduled"
    /\ global_oled_display' = None
    /\ notification_text' = NoNotification
    /\ UNCHANGED <<admins, shown, txn_vars, returned>>

\* an update the cleanup conversation sees: a callback query unless the
\* cash-out conversation is waiting for a button, a text unless the credit
\* or the cash-out conversation is waiting for an amount
CallbackPasses(c) == cashout_conv[c] # ASK_CASHOUT_TYPE

TextPasses(c) == credit_conv[c] = END /\ cashout_conv[c] # ASK_MANUAL_CASHOUT_AMOUNT

\* the handlers outside the cleanup conversation, with every amount text and
\* every fault tried
MoneyNext ==
    \/ \E c \in Chats : credit_start(c)
    \/ \E c \in Chats, text \in AmountTexts, fault \in Faults :
           receive_credit_amount(c, text, fault)
    \/ \E c \in Chats : credit_cancel(c)
    \/ \E c \in Chats : cashout_start(c)
    \/ \E c \in Chats, data \in ButtonData, fault \in Faults :
           cashout_type_chosen(c, data, fault)
    \/ \E c \in Chats, text \in AmountTexts, fault \in Faults :
           receive_manual_cashout_amount(c, text, fault)
    \/ \E c \in Chats : cashout_cancel(c)
    \/ \E c \in Chats : CommandPasses(c) /\ add_walk_command(c)
    \/ \E c \in Chats : detailed_report_command(c)
    \/ \E c \in Chats : balance_command(c)
    \/ \E c \in Chats : CommandPasses(c) /\ set_initial_balance_command(c)
    \/ \E c \in Chats, text \in AmountTexts : receive_initial_balance(c, text)
    \/ main

SpecMoney == TxnInit /\ [][MoneyNext]_vars

\* the texts and buttons tried when every handler is in play
Thirty == <<Zero + 3, Zero>>

FewAmounts == {Thirty, Garbage}

FewDates == {FormatDate(DateOfDay(FirstDay)), Garbage}

FewOptions == {"cleanup_preset_week", "cleanup_preset_10", "cleanup_custom", "cleanup_cancel"}

FewButtons == {"cashout_all", "cashout_manual", "cleanup_yes"}

AppNext ==
    \/ \E c \in Chats : credit_start(c)
    \/ \E c \in Chats, text \in FewAmounts : receive_credit_amount(c, text, "none")
    \/ \E c \in Chats : credit_cancel(c)
    \/ \E c \in Chats : cashout_start(c)
    \/ \E c \in Chats, data \in FewButtons : cashout_type_chosen(c, data, "none")
    \/ \E c \in Chats, text \in FewAmounts : receive_manual_cashout_amount(c, text, "none")
    \/ \E c \in Chats : cashout_cancel(c)
    \/ \E c \in Chats : CallbackPasses(c) /\ cleanup_start_callback(c, "cleanup_start")
    \/ \E c \in Chats, data \in FewOptions : CallbackPasses(c) /\ cleanup_option_chosen(c, data)
    \/ \E c \in Chats, text \in FewDates : TextPasses(c) /\ cleanup_get_start_date(c, text)
    \/ \E c \in Chats, text \in FewDates : TextPasses(c) /\ cleanup_get_end_date(c, text)
    \/ \E c \in Chats, data \in ConfirmData : CallbackPasses(c) /\ cleanup_confirm(c, data)
    \/ \E c \in Chats : CommandPasses(c) /\ cancel_fallback(c)
    \/ \E c \in Chats : CommandPasses(c) /\ add_walk_command(c)
    \/ \E c \in Chats : detailed_report_command(c)
    \/ \E c \in Chats : balance_command(c)
    \/ \E c \in Chats : receive_initial_balance(c, Thirty)
    \/ \E c \in Chats : Revoke(c)
    \/ main

\* every handler setup_handlers registers, for one chat
SpecApp == StoreInit /\ [][AppNext]_vars

\* ------------------------------------------------- the report aggregator
\* date.weekday(): Monday is 0; day 30 (2024-12-30) is a Monday
Weekday(n) == (n + 5) % 7

\* date.isocalendar()[1]: 2024-12-30 .. 2025-01-05 is ISO week 1, the week
\* before it is week 52
IsoWeek(n) == IF n >= 30 THEN 1 + ((n - 30) \div 7) ELSE 52 - ((29 - n) \div 7)

\* today - timedelta(days=(today.weekday() + 1) % 7)
LastSunday(n) == n - ((Weekday(n) + 1) % 7)

\* the week_number and year columns _add_transaction fills from now
WeekNumberOf(row) == IsoWeek(row.timestamp)

YearOf(row) == DateOfDay(row.timestamp).y

\* WHERE week_number = ? AND year = ? AND type ...
InWeek(rows, target_date, kinds) ==
    {i \in 1..Len(rows) : /\ WeekNumberOf(rows[i]) = IsoWeek(target_date)
                          /\ YearOf(rows[i]) = DateOfDay(target_date).y
                          /\ rows[i].type \in kinds}

get_weekly_report_data(target_date) ==
    LET walks == InWeek(transactions, target_date, {"walk"})
        paid  == InWeek(transactions, target_date, {"payment", "credit_given"})
    IN  [week_number |-> IsoWeek(target_date),
         year |-> DateOfDay(target_date).y,
         walks_count |-> Cardinality(walks),
         total_walks_amount |-> SumAmounts(SelectRows(transactions, walks)),
         total_payment_credit_amount |-> SumAmounts(SelectRows(transactions, paid))]

\* fault variant: the connection of a read commits a reset of the balance
Select_resetting(name, value) ==
    /\ returned' = Returns(name, value)
    /\ current_balance' = 0
    /\ UNCHANGED <<transactions, sqlite_sequence, today, db_path, other, last>>

\* connect, execute SELECT, fetch, close: the caller gets the value and
\* nothing is committed
Select(name, value) ==
    /\ returned' = Returns(name, value)
    /\ UNCHANGED <<transactions, current_balance, sqlite_sequence, today, db_path, other, last>>

ReadFrame == UNCHANGED <<txn_vars, state, user_data, admins, handled, shown,
                         conv_vars, display_vars, notif_vars>>

WriteFrame == UNCHANGED <<txn_vars, bot_vars>>

ReadsNext ==
    \/ \E a \in Amounts : add_walk(a) /\ WriteFrame
    \/ \E a \in Amounts : record_payment(a) /\ WriteFrame
    \/ \E a \in Amounts : record_credit_given(a) /\ WriteFrame
    \/ \E a \in BalanceInputs : set_initial_balance(a) /\ WriteFrame
    \/ \E ids \in IdInputs : clean_specific_entries(ids) /\ WriteFrame
    \/ Midnight /\ WriteFrame
    \/ Select("get_current_balance", get_current_balance) /\ ReadFrame
    \/ Select("get_all_transactions_for_report", get_all_transactions_for_report)
           /\ ReadFrame
    \/ \E d \in Days \cup {LastSunday(today)} :
           Select("get_weekly_report_data", get_weekly_report_data(d)) /\ ReadFrame
    \/ \E r \in DateRanges :
           Select("get_report_entries", get_report_entries(r[1], r[2])) /\ ReadFrame
    \/ \E n \in 1 .. (MaxTxns + 1) :
           Select("get_recent_entries", get_recent_entries(n)) /\ ReadFrame

\* the store with its readers: mutators and reads in any order
SpecReads == StoreInit /\ [][ReadsNext]_vars


\* ------------------------------------------------------ background paths
\* the display's statistics snapshot, computed from the log and the balance
get_statistics ==
    LET walks == OfKinds(transactions, {"walk"})
    IN  [total_walks |-> Cardinality(walks),
         walks_today |-> Cardinality({i \in walks : transactions[i].timestamp = today}),
         total_earned |-> SumAmounts(SelectRows(transactions, walks)),
         current_balance |-> current_balance]

\* fault variant: the display writes the balance it had cached back to the store
update_stats_persisting(stats) ==
    /\ stats_cache' = stats
    /\ current_balance' = stats_cache.current_balance
    /\ UNCHANGED <<transactions, sqlite_sequence, today, db_path, other, last>>

\* OLEDDisplayManager.update_stats: self.stats_cache.update(stats)
update_stats(stats) ==
    /\ stats_cache' = stats
    /\ UNCHANGED <<transactions, current_balance, sqlite_sequence, today, db_path, other, last>>

\* the scheduler's interval job, every 30 seconds on the scheduler's thread;
\* an exception of the read is logged and the cache is left as it was
update_oled_stats(fault) ==
    /\ IF fault = "none" THEN update_stats(get_statistics)
       ELSE UNCHANGED <<store_vars, stats_cache>>
    /\ UNCHANGED <<txn_vars, state, user_data, admins, handled, shown, conv_vars,
                   current_screen, weekly_job, notif_vars, returned>>

Screens == 4

\* the display thread: while a notification lasts it is drawn and nothing
\* changes; otherwise an expired one is cleared and the next of the rotating
\* screens is drawn from the cache
_update_display ==
    /\ notification_text' = NoNotification
    /\ current_screen' = (current_screen + 1) % Screens
    /\ UNCHANGED <<store_vars, txn_vars, state, user_data, admins, handled, shown,
                   conv_vars, stats_cache, weekly_job, global_oled_display, returned>>

\* what a run of the weekly job can come to: the scheduler's thread calls the
\* coroutine function and drops the coroutine, or the body is run and the
\* dict of get_weekly_report_data is unpacked into three names
JobOutcomes == {"coroutine never awaited", "too many values to unpack"}

send_scheduled_report(outcome) ==
    /\ weekly_job' = outcome
    /\ returned' = IF outcome = "too many values to unpack"
                   THEN Returns("get_weekly_report_data",
                                get_weekly_report_data(LastSunday(today)))
                   ELSE returned
    /\ UNCHANGED <<store_vars, txn_vars, state, user_data, admins, handled, shown,
                   conv_vars, stats_cache, current_screen, notif_vars>>

\* the connection of the handler being run: handlers run one at a time
Handler == "c1"

Idle == \A p \in Conns : conns[p].pc = "closed"

BackgroundNext ==
    \/ \E a \in Amounts :
           Idle /\ Connect(Handler, "add_walk", a, WalkAmount(a), "walk", "Dog walk")
    \/ \E a \in Amounts :
           Idle /\ Connect(Handler, "record_payment", a, PaymentAmount(a),
                           "payment", "Manual cash out")
    \/ ExecuteInsert(Handler)
    \/ ExecuteUpdate(Handler)
    \/ Commit(Handler)
    \/ Fault(Handler)
    \/ \E c \in Chats : Idle /\ receive_initial_balance(c, Thirty)
    \/ Midnight /\ UNCHANGED <<txn_vars, bot_vars>>
    \/ \E fault \in {"none", "read"} : update_oled_stats(fault)
    \/ _update_display
    \/ \E outcome \in JobOutcomes : send_scheduled_report(outcome)

\* the handlers' store calls, statement by statement, with the scheduler's
\* jobs and the display thread running beside them
SpecBackground == TxnInit /\ [][BackgroundNext]_vars

\* the values setup_handlers can be given as oled_display
Displays == {None, OLEDDisplayManager}

\* setup_handlers(application, stats_manager, oled_display): the handlers
\* run with the display attached or absent
DisplayInit ==
    /\ LedgerInit
    /\ db_path = "ledger"
    /\ other = NoOtherFile
    /\ TxnIdle
    /\ HandlersIdle(1 .. MaxChats)
    /\ global_oled_display \in Displays

\* the handlers that notify the display, the ones that open and close their
\* conversations, and a walk
DisplayNext ==
    \/ \E c \in Chats : credit_start(c)
    \/ \E c \in Chats, text \in AmountTexts, fault \in Faults :
           receive_credit_amount(c, text, fault)
    \/ \E c \in Chats : credit_cancel(c)
    \/ \E c \in Chats : cashout_start(c)
    \/ \E c \in Chats, data \in ButtonData, fault \in Faults :
           cashout_type_chosen(c, data, fault)
    \/ \E c \in Chats, text \in AmountTexts, fault \in Faults :
           receive_manual_cashout_amount(c, text, fault)
    \/ \E c \in Chats : cashout_cancel(c)
    \/ \E c \in Chats : CommandPasses(c) /\ add_walk_command(c)

SpecDisplay == DisplayInit /\ [][DisplayNext]_vars


\* ------------------------------------------------------ the weekly job
WeeklyNext ==
    \/ \E a \in Amounts : add_walk(a) /\ WriteFrame
    \/ \E a \in Amounts : record_payment(a) /\ WriteFrame
    \/ \E a \in Amounts : record_credit_given(a) /\ WriteFrame
    \/ Midnight /\ WriteFrame
    \/ \E outcome \in JobOutcomes : send_scheduled_report(outcome)

\* the scheduler runs the weekly job whenever its trigger fires
WeeklyFairness == WF_vars(\E outcome \in JobOutcomes : send_scheduled_report(outcome))

\* the ledger being written to while the scheduler's weekly trigger fires
SpecWeekly == TxnInit /\ [][WeeklyNext]_vars /\ WeeklyFairness


\* ================================================================= claims
\* a step that made the call named op (a repeated identical call that changes
\* nothing is a stuttering step)
Appended == sqlite_sequence' = sqlite_sequence + 1

Called(op) == last'.op = op /\ (last' # last \/ Appended)

NoDeletions == Len(transactions) = sqlite_sequence

ValidRange(from_date, to_date) ==
    /\ validate_date(from_date) # Invalid
    /\ validate_date(to_date) # Invalid
    /\ ~DateAfter(validate_date(from_date), validate_date(to_date))

\* the date of a ledger row's timestamp lies in [from_date, to_date]
DatedWithin(row, from_date, to_date) ==
    /\ ~DateAfter(validate_date(from_date), DateOfDay(row.timestamp))
    /\ ~DateAfter(DateOfDay(row.timestamp), validate_date(to_date))

\* C1: with no deletions, get_current_balance() equals the fold of section
\* 4.2 over the log: start at 0, add every walk/payment/credit_given amount,
\* reset at every initial_balance row.
C1_BalanceIsFold == NoDeletions => get_current_balance = Fold(0, transactions)

\* C2: after a deletion has removed transactions, the balance still equals
\* the value derived from the transactions that remain in the log.
C2_BalanceFollowsDeletion ==
    (/\ last.op \in {"clean_detailed_report", "clean_specific_entries"}
     /\ last.ret.deleted_count > 0
     /\ db_path = "ledger")
        => current_balance = Fold(0, transactions)

\* C3: set_initial_balance(a) sets the balance to a and appends one
\* initial_balance transaction whose amount is a.
C3_InitialBalanceLogged ==
    last.op = "set_initial_balance"
        => /\ current_balance = last.amount
           /\ transactions # <<>>
           /\ transactions[Len(transactions)].type = "initial_balance"
           /\ transactions[Len(transactions)].amount = last.amount

\* C4: appending is atomic: whatever step of _add_transaction a fault strikes
\* at, the file holds the new row and the updated balance or neither, and no
\* reader sees the row with a stale balance.
C4_AppendAtomic ==
    /\ current_balance = SumAmounts(transactions)
    /\ Len(transactions) = sqlite_sequence
    /\ observed.balance = SumAmounts(observed.rows)
    /\ \A p \in Conns :
           conns[p].pc \in {"inserted", "updated"} => Len(transactions) = conns[p].seq - 1

C4_Witness ==
    /\ last.ret.error = "fault after INSERT"
    /\ Len(transactions) = 1
    /\ observed.rows = transactions
    /\ observed.balance # 0

\* C5: add_walk(a) logs a walk of amount a and moves the balance by +a;
\* record_payment(a) and record_credit_given(a) log -|a| and move the balance
\* by -|a|, so neither ever increases the balance.
C5_Rule(op, kind, stored) ==
    (Called(op) /\ Appended)
        => /\ Len(transactions') = Len(transactions) + 1
           /\ SubSeq(transactions', 1, Len(transactions)) = transactions
           /\ transactions'[Len(transactions')].type = kind
           /\ transactions'[Len(transactions')].amount = stored
           /\ current_balance' = current_balance + stored

C5_SignRules ==
    [][/\ C5_Rule("add_walk", "walk", last'.amount)
       /\ C5_Rule("record_payment", "payment", -Abs(last'.amount))
       /\ C5_Rule("record_credit_given", "credit_given", -Abs(last'.amount))
       /\ (Appended /\ last'.op \in {"record_payment", "record_credit_given"})
              => current_balance' <= current_balance]_vars

C5_Witness ==
    /\ last.op = "record_payment"
    /\ last.amount < 0
    /\ transactions # <<>>
    /\ transactions[Len(transactions)].type = "payment"
    /\ transactions[Len(transactions)].amount = last.amount
    /\ current_balance < 0

\* C6: on a log written by the ledger mutators, clean_detailed_report(f, t)
\* with f <= t leaves no transaction dated within [f, t].
C6_RangeRemoved ==
    (/\ last.op = "clean_detailed_report"
     /\ db_path = "ledger"
     /\ ValidRange(last.from_date, last.to_date))
        => \A i \in 1..Len(transactions) :
               ~DatedWithin(transactions[i], last.from_date, last.to_date)

\* C7: on a store that has the transactions table, clean_specific_entries(ids)
\* removes exactly the rows whose id is in ids, ignores ids that are absent
\* (success), and returns the number of rows removed.
C7_ExactlyTheIds ==
    [][(Called("clean_specific_entries") /\ CleanupTable.exists)
          => LET before == CleanupTable.rows
                 after  == CleanupTable'.rows
                 ids    == last'.ids
                 kept   == {i \in 1..Len(before) : before[i].id \notin ids}
             IN  /\ after = SelectRows(before, kept)
                 /\ last'.ret.deleted_count = Len(before) - Len(after)
                 /\ ids # {} => last'.ret.success]_vars

C7_Witness ==
    /\ last.op = "clean_specific_entries"
    /\ last.ret.success
    /\ last.ret.deleted_count = 1
    /\ Cardinality(last.ids) = 2
    /\ \E e \in last.ids : e > sqlite_sequence
    /\ db_path = "ledger"
    /\ Len(transactions) = 1

\* C8: a deletion leaves the balance as it was.
C8_DeletionKeepsBalance ==
    [][(Called("clean_detailed_report") \/ Called("clean_specific_entries"))
          => current_balance' = current_balance]_vars

C8_Witness ==
    /\ last.op = "clean_specific_entries"
    /\ last.ret.deleted_count > 0
    /\ db_path = "ledger"
    /\ current_balance # 0
    /\ transactions = <<>>

\* the handlers of cleanup_conv_handler
CleanupHandlers ==
    {"cleanup_start_callback", "cleanup_option_chosen", "cleanup_get_start_date",
     "cleanup_get_end_date", "cleanup_confirm"}

\* a step in which a cleanup handler handled an update of chat c (a repeated
\* identical update that changes nothing is a stuttering step)
CleanupStep(c) ==
    /\ handled'.chat = c
    /\ handled'.handler \in CleanupHandlers
    /\ (handled' # handled \/ state' # state \/ user_data' # user_data)

\* a step that takes rows out of the ledger or out of the DB_PATH file's
\* table (a file that is lost as a whole is a fault, not a deletion)
RowsRemoved ==
    \/ Ids(transactions) \ Ids(transactions') # {}
    \/ other'.exists /\ Ids(other.rows) \ Ids(other'.rows) # {}

\* C9: whenever a cleanup handler (entry, option choice, start date, end date,
\* confirm) handles an update of a chat that is_admin rejects, the reply is
\* "Access denied.", the conversation ends, and the log, the balance and the
\* DB_PATH file are unchanged; rows are only ever removed by the confirm
\* handler acting for a chat that is_admin accepts at that moment.
C9_NonAdminDenied ==
    [][/\ \A c \in Chats :
              (CleanupStep(c) /\ ~is_admin(c))
                  => /\ handled'.reply.text = "Access denied."
                     /\ state'[c] = END
                     /\ UNCHANGED <<transactions, current_balance, sqlite_sequence, other>>
       /\ RowsRemoved => /\ handled'.handler = "cleanup_confirm"
                         /\ is_admin(handled'.chat)]_vars

\* a chat that saw a preview, lost its admin role, pressed a confirm button,
\* was denied, and the previewed rows are still in the file
C9_Witness ==
    /\ handled.handler = "cleanup_confirm"
    /\ handled.data \in {"cleanup_yes", "cleanup_confirm_entries"}
    /\ handled.reply.text = "Access denied."
    /\ ~is_admin(handled.chat)
    /\ state[handled.chat] = END
    /\ shown[handled.chat] # {}
    /\ shown[handled.chat] \subseteq Ids(CleanupTable.rows)

\* the confirm button of the branch that produced chat c's preview
OwnConfirm(c, data) ==
    \/ data = "cleanup_yes" /\ "cleanup_total_entries" \in DOMAIN user_data[c]
    \/ data = "cleanup_confirm_entries" /\ "cleanup_entries" \in DOMAIN user_data[c]

\* C10: when an admitted operator presses the confirm button of the preview
\* they were shown, the rows that step removes are exactly the rows that
\* preview listed, whatever was handled between the preview and the confirm.
C10_RemovedIsPreviewed ==
    [][\A c \in Chats :
           (/\ state[c] = CONFIRM_CLEANUP
            /\ CleanupStep(c)
            /\ handled'.handler = "cleanup_confirm"
            /\ OwnConfirm(c, handled'.data)
            /\ is_admin(c))
               => Ids(CleanupTable.rows) \ Ids(CleanupTable'.rows) = shown[c]]_vars

DeletePrimitives == {"clean_detailed_report", "clean_specific_entries"}

\* a step in which a delete primitive was called
PrimitiveInvoked ==
    /\ last'.op \in DeletePrimitives
    /\ (last' # last \/ RowsRemoved)

StoreUntouched ==
    UNCHANGED <<transactions, current_balance, sqlite_sequence, other, last>>

\* C11: a delete primitive is only ever called by the confirm handler, from
\* CONFIRM_CLEANUP, on a confirm input of the branch that produced the
\* preview (cleanup_yes calls clean_detailed_report, cleanup_confirm_entries
\* calls clean_specific_entries); a decline input from CONFIRM_CLEANUP ends
\* the conversation and leaves the store as it was; a cleanup step from
\* CONFIRM_CLEANUP that changes the store is a confirm input.
C11_OnlyConfirmDeletes ==
    [][/\ PrimitiveInvoked
            => /\ handled'.handler = "cleanup_confirm"
               /\ state[handled'.chat] = CONFIRM_CLEANUP
               /\ OwnConfirm(handled'.chat, handled'.data)
               /\ (last'.op = "clean_detailed_report") <=> (handled'.data = "cleanup_yes")
       /\ \A c \in Chats :
              (state[c] = CONFIRM_CLEANUP /\ CleanupStep(c))
                  => /\ (handled'.handler = "cleanup_confirm"
                            /\ handled'.data \in {"cleanup_no", "cleanup_cancel"})
                         => (state'[c] = END /\ StoreUntouched)
                     /\ ~StoreUntouched
                         => /\ handled'.handler = "cleanup_confirm"
                            /\ handled'.data \in {"cleanup_yes", "cleanup_confirm_entries"}]_vars

\* the last-N confirm has just deleted the previewed rows
C11_Witness ==
    /\ handled.handler = "cleanup_confirm"
    /\ handled.data = "cleanup_confirm_entries"
    /\ last.op = "clean_specific_entries"
    /\ last.ret.deleted_count > 0
    /\ state[handled.chat] = END

\* calendar order of two parsed dates, as one number each
DayNumber(dt) == 10000 * dt.y + 100 * dt.m + dt.d

\* C12: in ASK_CLEANUP_END_DATE, a well-formed end date earlier than the
\* stored start date keeps the state, keeps the stored start date, stores no
\* end date and leaves the store as it was.
C12_EarlierEndRejected ==
    [][\A c \in Chats :
           (/\ CleanupStep(c)
            /\ handled'.handler = "cleanup_get_end_date"
            /\ is_admin(c)
            /\ validate_date(handled'.text) # Invalid
            /\ DayNumber(validate_date(handled'.text))
                   < DayNumber(validate_date(user_data[c]["cleanup_start_date"])))
               => /\ state[c] = ASK_CLEANUP_END_DATE
                  /\ state'[c] = ASK_CLEANUP_END_DATE
                  /\ user_data'[c]["cleanup_start_date"] = user_data[c]["cleanup_start_date"]
                  /\ "cleanup_end_date" \notin DOMAIN user_data'[c]
                  /\ StoreUntouched]_vars

C12_Witness ==
    /\ handled.handler = "cleanup_get_end_date"
    /\ handled.reply.text = "End date must be after start date"
    /\ state[handled.chat] = ASK_CLEANUP_END_DATE
    /\ DayNumber(validate_date(handled.text))
           < DayNumber(validate_date(user_data[handled.chat]["cleanup_start_date"]))

\* texts strptime("%Y-%m-%d") rejects
MalformedInputs == {Garbage, NoSuchDay}

\* C13: a malformed date text keeps the conversation in the state that asked
\* for it (start or end), is answered with the invalid-format prompt, stores
\* no date in the session and leaves the store as it was.
C13_MalformedReprompts ==
    [][\A c \in Chats :
           (/\ CleanupStep(c)
            /\ handled'.handler \in {"cleanup_get_start_date", "cleanup_get_end_date"}
            /\ is_admin(c)
            /\ handled'.text \in MalformedInputs)
               => /\ state[c] = (IF handled'.handler = "cleanup_get_start_date"
                                 THEN ASK_CLEANUP_START_DATE ELSE ASK_CLEANUP_END_DATE)
                  /\ state'[c] = state[c]
                  /\ handled'.reply.text = "Invalid date format"
                  /\ user_data'[c] = user_data[c]
                  /\ "cleanup_end_date" \notin DOMAIN user_data'[c]
                  /\ (handled'.handler = "cleanup_get_start_date"
                         => "cleanup_start_date" \notin DOMAIN user_data'[c])
                  /\ StoreUntouched]_vars

C13_Witness ==
    /\ handled.handler = "cleanup_get_end_date"
    /\ handled.text = NoSuchDay
    /\ handled.reply.text = "Invalid date format"
    /\ state[handled.chat] = ASK_CLEANUP_END_DATE
    /\ "cleanup_start_date" \in DOMAIN user_data[handled.chat]

PresetData == {"cleanup_preset_week", "cleanup_preset_month", "cleanup_preset_10"}

\* C14: CONFIRM_CLEANUP is entered either from ASK_CLEANUP_OPTION by one of
\* the three presets, or from ASK_CLEANUP_END_DATE by a valid end date not
\* earlier than the valid start date stored before it; ASK_CLEANUP_END_DATE
\* is entered only from ASK_CLEANUP_START_DATE by a valid start date, which
\* is stored; ASK_CLEANUP_START_DATE only from ASK_CLEANUP_OPTION by
\* cleanup_custom.
C14_PreviewOrder ==
    [][\A c \in Chats :
           /\ (state'[c] = CONFIRM_CLEANUP /\ state[c] # CONFIRM_CLEANUP)
                  => \/ /\ state[c] = ASK_CLEANUP_OPTION
                        /\ handled'.handler = "cleanup_option_chosen"
                        /\ handled'.data \in PresetData
                     \/ /\ state[c] = ASK_CLEANUP_END_DATE
                        /\ handled'.handler = "cleanup_get_end_date"
                        /\ validate_date(handled'.text) # Invalid
                        /\ validate_date(user_data[c]["cleanup_start_date"]) # Invalid
                        /\ DayNumber(validate_date(user_data[c]["cleanup_start_date"]))
                               <= DayNumber(validate_date(handled'.text))
                        /\ user_data'[c]["cleanup_start_date"]
                               = user_data[c]["cleanup_start_date"]
                        /\ user_data'[c]["cleanup_end_date"] = handled'.text
                        /\ user_data'[c]["cleanup_type"] = "Custom Range"
           /\ (state'[c] = ASK_CLEANUP_END_DATE /\ state[c] # ASK_CLEANUP_END_DATE)
                  => /\ state[c] = ASK_CLEANUP_START_DATE
                     /\ handled'.handler = "cleanup_get_start_date"
                     /\ validate_date(handled'.text) # Invalid
                     /\ user_data'[c]["cleanup_start_date"] = handled'.text
           /\ (state'[c] = ASK_CLEANUP_START_DATE /\ state[c] # ASK_CLEANUP_START_DATE)
                  => /\ state[c] = ASK_CLEANUP_OPTION
                     /\ handled'.handler = "cleanup_option_chosen"
                     /\ handled'.data = "cleanup_custom"]_vars

\* a custom range has reached its preview
C14_Witness ==
    /\ handled.handler = "cleanup_get_end_date"
    /\ state[handled.chat] = CONFIRM_CLEANUP
    /\ user_data[handled.chat]["cleanup_type"] = "Custom Range"
    /\ user_data[handled.chat]["cleanup_end_date"] = handled.text

\* the ids of every row of the DB_PATH table, when its columns can be read
AllIds ==
    IF SqlError(CleanupTable, {"id", "date"}) # "None" THEN {}
    ELSE Ids(CleanupTable.rows)

\* the rows the preview query of this step matches, for the step's input
Matched(c) ==
    IF handled'.handler = "cleanup_get_end_date"
    THEN RangeIds(user_data[c]["cleanup_start_date"], handled'.text)
    ELSE IF handled'.data = "cleanup_preset_week" THEN RangeIds(DaysAgo(WeekDays), DaysAgo(0))
    ELSE IF handled'.data = "cleanup_preset_month" THEN RangeIds(DaysAgo(MonthDays), DaysAgo(0))
    ELSE AllIds

\* a step that runs a preview query
PreviewQuery(c) ==
    /\ CleanupStep(c)
    /\ is_admin(c)
    /\ \/ /\ handled'.handler = "cleanup_option_chosen"
          /\ handled'.data \in PresetData
       \/ /\ handled'.handler = "cleanup_get_end_date"
          /\ validate_date(handled'.text) # Invalid
          /\ DayNumber(validate_date(user_data[c]["cleanup_start_date"]))
                 <= DayNumber(validate_date(handled'.text))

\* C15: a preview query that matches no row ends the conversation at once,
\* with a message that carries no button, and calls no delete primitive;
\* CONFIRM_CLEANUP is only entered with a preview that lists at least one row.
C15_EmptyPreviewEnds ==
    [][\A c \in Chats :
           /\ (PreviewQuery(c) /\ Matched(c) = {})
                  => /\ state'[c] = END
                     /\ handled'.reply.buttons = {}
                     /\ handled'.reply.text
                            \in {"No entries found", "No entries found to cleanup."}
                     /\ StoreUntouched
           /\ (state'[c] = CONFIRM_CLEANUP /\ state[c] # CONFIRM_CLEANUP)
                  => /\ shown'[c] # {}
                     /\ handled'.reply.count = Cardinality(shown'[c])]_vars

\* the table holds a row, the range asked for does not cover it
C15_Witness ==
    /\ handled.handler \in {"cleanup_option_chosen", "cleanup_get_end_date"}
    /\ handled.reply.text = "No entries found"
    /\ state[handled.chat] = END
    /\ db_path = "other"
    /\ other.exists
    /\ other.rows # <<>>

\* C16: when the delete primitive called by a confirm input returns
\* success = False, the reply quotes the primitive's error text, the
\* conversation ends, and no row is removed.
C16_FailureReported ==
    [][\A c \in Chats :
           (/\ state[c] = CONFIRM_CLEANUP
            /\ CleanupStep(c)
            /\ handled'.handler = "cleanup_confirm"
            /\ is_admin(c)
            /\ OwnConfirm(c, handled'.data)
            /\ ~last'.ret.success)
               => /\ last'.op \in DeletePrimitives
                  /\ handled'.reply.text \in {"Cleanup Failed", "Failed to delete entries"}
                  /\ handled'.reply.error = last'.ret.error
                  /\ handled'.reply.error # "None"
                  /\ state'[c] = END
                  /\ ~RowsRemoved]_vars

\* the DB_PATH file was lost after the preview; the confirm reported it
C16_Witness ==
    /\ handled.handler = "cleanup_confirm"
    /\ handled.data = "cleanup_yes"
    /\ handled.reply.text = "Cleanup Failed"
    /\ handled.reply.error = "no such table: transactions"
    /\ last.op = "clean_detailed_report"
    /\ ~last.ret.success
    /\ state[handled.chat] = END

\* the inputs that ask to cancel: the /cancel command, the Cancel buttons
CancelSignal(c) ==
    /\ handled'.chat = c
    /\ handled' # handled \/ state' # state
    /\ \/ handled'.handler = "cancel_fallback"
       \/ /\ handled'.handler \in {"cleanup_option_chosen", "cleanup_confirm"}
          /\ handled'.data \in {"cleanup_cancel", "cleanup_no"}

\* C17: a cancel signal in any non-terminal state of the cleanup workflow
\* moves it to the terminal state, and no row and no balance changes.
C17_CancelEnds ==
    [][\A c \in Chats :
           (state[c] # END /\ CancelSignal(c))
               => /\ state'[c] = END
                  /\ StoreUntouched]_vars

Min(a, b) == IF a < b THEN a ELSE b

\* C18: with DB_PATH naming the ledger file and m >= 1 transactions in it,
\* the "last 10 entries" preset previews min(m, 10) of them, the most recent
\* ones, and offers the confirm button; the confirm step then removes
\* exactly the previewed transactions and leaves the balance as it was.
C18_LastTenOnLedger ==
    [][\A c \in Chats :
           /\ (/\ db_path = "ledger"
               /\ transactions # <<>>
               /\ state[c] = ASK_CLEANUP_OPTION
               /\ is_admin(c)
               /\ CleanupStep(c)
               /\ handled'.handler = "cleanup_option_chosen"
               /\ handled'.data = "cleanup_preset_10")
                  => /\ state'[c] = CONFIRM_CLEANUP
                     /\ handled'.reply.count = Min(Len(transactions), PresetCount)
                     /\ Cardinality(shown'[c]) = Min(Len(transactions), PresetCount)
                     /\ shown'[c] \subseteq Ids(transactions)
                     /\ \A i \in shown'[c], j \in Ids(transactions) \ shown'[c] : j < i
           /\ (/\ db_path = "ledger"
               /\ state[c] = CONFIRM_CLEANUP
               /\ is_admin(c)
               /\ CleanupStep(c)
               /\ handled'.handler = "cleanup_confirm"
               /\ handled'.data = "cleanup_confirm_entries")
                  => /\ Ids(transactions') = Ids(transactions) \ shown[c]
                     /\ current_balance' = current_balance]_vars

\* the ledger rows add_walk, record_payment and record_credit_given wrote
\* whose timestamp's date lies in [from_date, to_date]
LoggedWithin(from_date, to_date) ==
    {i \in 1..Len(transactions) :
         /\ transactions[i].type \in {"walk", "payment", "credit_given"}
         /\ DatedWithin(transactions[i], from_date, to_date)}

\* C19: on the ledger, get_report_entries(d1, d2) with d1 <= d2 returns one
\* entry for every walk, payment and credit_given row dated within
\* [d1, d2], bounds included, none for a row outside, in ascending order.
C19_EntriesInRange ==
    db_path = "ledger"
        => \A r \in DateRanges :
               ValidRange(r[1], r[2])
                   => LET entries == get_report_entries(r[1], r[2])
                          within  == LoggedWithin(r[1], r[2])
                      IN  /\ Len(entries) = Cardinality(within)
                          /\ \A i \in within :
                                 \E k \in 1..Len(entries) :
                                     /\ entries[k].amount = transactions[i].amount
                                     /\ entries[k].type = transactions[i].type
                          /\ \A k \in 1..Len(entries), l \in 1..Len(entries) :
                                 k < l => entries[k].date <= entries[l].date

\* C20: on the ledger holding m transactions, get_recent_entries(n) returns
\* min(m, n) entries: the ones with the largest ids, newest first, the
\* larger id first among equal timestamps.
C20_RecentEntries ==
    db_path = "ledger"
        => \A n \in 1..(MaxTxns + 1) :
               LET entries == get_recent_entries(n)
                   m == Len(transactions)
               IN  /\ Len(entries) = Min(m, n)
                   /\ \A k \in 1..Len(entries) : entries[k].id = transactions[m + 1 - k].id
                   /\ \A k \in 1..Len(entries), l \in 1..Len(entries) :
                          k < l => \/ entries[k].date > entries[l].date
                                   \/ /\ entries[k].date = entries[l].date
                                      /\ entries[k].id > entries[l].id

\* C21 .. C30 ------------------------------------------------------------
\* C22: ids are unique and strictly increasing in creation order, and a new
\* transaction never gets an id that was assigned before, deleted or not.
C22_IdsNeverReused ==
    [][/\ \A i \in 1..Len(transactions'), j \in 1..Len(transactions') :
              i < j => transactions'[i].id < transactions'[j].id
       /\ \A i \in 1..Len(transactions') : transactions'[i].id <= sqlite_sequence'
       /\ Appended
              => /\ transactions'[Len(transactions')].id > sqlite_sequence
                 /\ \A i \in 1..Len(transactions) :
                        transactions[i].id < transactions'[Len(transactions')].id]_vars

\* transaction 1 was deleted, the next append got id 2
C22_Witness ==
    /\ Len(transactions) = 1
    /\ transactions[1].id = 2
    /\ last.op \in {"add_walk", "record_payment", "record_credit_given"}

\* the step in which connection p commits
Committed(p) ==
    /\ conns[p].pc = "updated"
    /\ conns'[p].pc = "closed"
    /\ last'.ret.success

\* C27: however the steps of two appends interleave, each commit adds its
\* own row to the log as it stands and its own amount to the balance as it
\* stands: no row and no balance update of the other append is lost.
C27_NoLostUpdate ==
    [][\A p \in Conns :
           Committed(p)
               => /\ Len(transactions') = Len(transactions) + 1
                  /\ SubSeq(transactions', 1, Len(transactions)) = transactions
                  /\ transactions'[Len(transactions')].amount = conns[p].amount
                  /\ transactions'[Len(transactions')].type = conns[p].type
                  /\ current_balance' = current_balance + conns[p].amount]_vars

\* two appends have completed; the second was begun while the first held
\* its connection open
C27_Witness ==
    /\ Len(transactions) = 2
    /\ transactions[1].type # transactions[2].type
    /\ current_balance = transactions[1].amount + transactions[2].amount
    /\ \A p \in Conns : conns[p].pc = "closed"
    /\ last.ret.success

\* C29: when the preview query of the cleanup workflow fails in the store,
\* the step reports an error to the operator, quoting it; the reply is not
\* the "no entries found" message of a healthy store without matching rows.
C29_PreviewFailureReported ==
    [][\A c \in Chats :
           (PreviewQuery(c) /\ SqlError(CleanupTable, {"date"}) # "None")
               => /\ handled'.reply.error = SqlError(CleanupTable, {"date"})
                  /\ handled'.reply.text
                         \notin {"No entries found", "No entries found to cleanup."}]_vars

\* the rows of the DB_PATH table a range preview lists, by kind
Previewed(c, kind) ==
    {i \in 1..Len(other.rows) :
         other.rows[i].id \in shown'[c] /\ other.rows[i].type = kind}

\* C25: the range preview's breakdown partitions the previewed set: its walk,
\* credit and payment counts are the numbers of walk, credit_given and
\* payment rows previewed, and they add up to the total it displays when the
\* set holds only these three kinds.
C25_BreakdownPartitions ==
    [][\A c \in Chats :
           (/\ CleanupStep(c)
            /\ state'[c] = CONFIRM_CLEANUP
            /\ handled'.reply.text = "Cleanup Preview")
               => /\ handled'.reply.walks = Cardinality(Previewed(c, "walk"))
                  /\ handled'.reply.credits = Cardinality(Previewed(c, "credit_given"))
                  /\ handled'.reply.payments = Cardinality(Previewed(c, "payment"))
                  /\ handled'.reply.count = Cardinality(shown'[c])
                  /\ (\A i \in 1..Len(other.rows) : other.rows[i].type \in LedgerKinds)
                         => handled'.reply.walks + handled'.reply.credits
                                + handled'.reply.payments = handled'.reply.count]_vars

\* amount texts that are not numbers, that are numbers <= 0, that are zero
NonNumeric == {Garbage}

NonPositive == {<<Zero>>, <<Dash, Zero + 3, Zero>>}

ZeroTexts == {<<Zero>>}

\* a step in which the named handler handled an update of chat c
HandledBy(c, handler) ==
    /\ handled'.chat = c
    /\ handled'.handler = handler
    /\ handled' # handled

C24_ReportTotals ==
    [][\A c \in Chats :
           HandledBy(c, "detailed_report_command")
               => LET walks == OfKinds(transactions, {"walk"})
                      paid  == OfKinds(transactions, {"payment", "credit_given"})
                  IN  /\ handled'.reply.walks = Cardinality(walks)
                      /\ handled'.reply.walk_total_amount
                             = SumAmounts(SelectRows(transactions, walks))
                      /\ handled'.reply.balance = current_balance
                      /\ handled'.reply.total_payment_credit_amount
                             = SumAmounts(SelectRows(transactions, paid))]_vars

\* the exceptions a call of the store raised inside a handler
StoreErrors ==
    {"database is locked", "disk I/O error",
     "NOT NULL constraint failed: transactions.amount"}

\* C30: when a call of the store fails inside a credit or cash-out handler,
\* the handler does not call it again, the conversation ends and the reply
\* is an error message; no step records more than one transaction.
C30_FailureEndsConversation ==
    [][/\ Len(transactions') <= Len(transactions) + 1
       /\ \A c \in Chats :
              /\ (/\ HandledBy(c, "receive_credit_amount")
                  /\ handled'.reply.error \in StoreErrors)
                     => credit_conv'[c] = END
              /\ (/\ handled'.chat = c
                  /\ handled' # handled
                  /\ handled'.handler
                         \in {"cashout_type_chosen", "receive_manual_cashout_amount"}
                  /\ handled'.reply.error \in StoreErrors)
                     => cashout_conv'[c] = END]_vars

\* the reads of the report aggregator
Reads ==
    {"get_weekly_report_data", "get_all_transactions_for_report",
     "get_report_entries", "get_recent_entries", "get_current_balance"}

\* C23: every read of the report aggregator (get_weekly_report_data,
\* get_all_transactions_for_report, get_report_entries, get_recent_entries,
\* get_current_balance) leaves the transaction log, the id counter, the
\* balance and the table DB_PATH names as they were.
C23_ReadsLeaveStore ==
    [][(returned' # returned /\ returned'.op \in Reads)
           => UNCHANGED <<transactions, current_balance, sqlite_sequence, other>>]_vars

\* a read answered from a store that holds a transaction and a balance
C23_Witness ==
    /\ returned.op = "get_weekly_report_data"
    /\ transactions # <<>>
    /\ current_balance # 0
    /\ returned.value.week_number = 1

\* C26: the display-stats poll, the display refresh thread and the weekly
\* report job never change the log or the balance, wherever they fall
\* between the statements of a handler's store call: a step of theirs
\* leaves the store and the open transaction alone, and every change of the
\* store is a step of a handler's store call.
C26_BackgroundReadsOnly ==
    [][/\ (\/ stats_cache' # stats_cache
           \/ current_screen' # current_screen
           \/ weekly_job' # weekly_job)
              => UNCHANGED <<transactions, current_balance, sqlite_sequence, other, conns>>
       /\ (\/ transactions' # transactions
           \/ current_balance' # current_balance
           \/ sqlite_sequence' # sqlite_sequence)
              => (conns' # conns \/ last' # last)]_vars

\* the poll ran between the statements of an append and its cache went stale,
\* the display moved on and the weekly job ran
C26_Witness ==
    /\ stats_cache # EmptyStats
    /\ stats_cache.current_balance # current_balance
    /\ conns[Handler].pc = "inserted"
    /\ current_screen # 0
    /\ weekly_job # "scheduled"

\* every row of s whose id is still in t is in t unaltered
SameWhereKept(s, t) ==
    \A i \in 1..Len(s), j \in 1..Len(t) : s[i].id = t[j].id => s[i] = t[j]

\* the step of the confirm handler, taken by an admin, that called a delete
\* primitive
ConfirmedDeletion ==
    /\ handled'.handler = "cleanup_confirm"
    /\ is_admin(handled'.chat)
    /\ last'.op \in DeletePrimitives
    /\ last'.ret.success

\* C21: no step alters a written transaction in place (a row that keeps its
\* id keeps its timestamp, amount, kind and description), and a transaction
\* leaves the log only in the step of the admin-gated confirm handler that
\* called clean_detailed_report or clean_specific_entries: every other step
\* (mutators, reports, previews, cancels, denied or invalid inputs, the
\* initialisation of the store) keeps all existing transactions.
C21_WrittenOnceDeletedByConfirm ==
    [][/\ SameWhereKept(transactions, transactions')
       /\ SameWhereKept(other.rows, other'.rows)
       /\ RowsRemoved => ConfirmedDeletion
       /\ ~ConfirmedDeletion
              => /\ Ids(transactions) \subseteq Ids(transactions')
                 /\ Ids(other.rows) \subseteq Ids(other'.rows)]_vars

\* the confirm handler removed a transaction from the table DB_PATH names
\* after the other handlers had written to the ledger
C21_Witness ==
    /\ handled.handler = "cleanup_confirm"
    /\ last.op \in DeletePrimitives
    /\ last.ret.deleted_count > 0
    /\ transactions # <<>>
    /\ current_balance # 0

\* C31 .. C40 ------------------------------------------------------------
\* what a delete primitive returns when it refuses its input
Refused(ret) == ~ret.success /\ ret.deleted_count = 0 /\ ret.error # "None"

\* C39: clean_detailed_report with a malformed date or with from_date later
\* than to_date, and clean_specific_entries with an empty id list, return
\* success = false, deleted_count = 0 and an error text, and leave the log,
\* the table DB_PATH names and the balance unchanged.
C39_FailClosed ==
    [][/\ (/\ Called("clean_detailed_report")
           /\ ~ValidRange(last'.from_date, last'.to_date))
              => /\ Refused(last'.ret)
                 /\ UNCHANGED <<transactions, current_balance, sqlite_sequence, other>>
       /\ (/\ Called("clean_specific_entries")
           /\ last'.ids = {})
              => /\ Refused(last'.ret)
                 /\ UNCHANGED <<transactions, current_balance, sqlite_sequence, other>>]_vars

\* a reversed range, and an empty id list, refused over a table that holds rows
C39_Witness ==
    /\ db_path = "other"
    /\ other.exists
    /\ other.rows # <<>>
    /\ ~last.ret.success
    /\ \/ last.op = "clean_specific_entries" /\ last.ids = {}
       \/ /\ last.op = "clean_detailed_report"
          /\ last.ret.error = "from_date must be before or equal to to_date"

\* the Monday that opens the ISO calendar week of day n
MondayOf(n) == n - Weekday(n)

\* the rows of the given kinds recorded in the ISO calendar week that contains d
RecordedInWeekOf(d, kinds) ==
    {i \in OfKinds(transactions, kinds) :
         MondayOf(transactions[i].timestamp) = MondayOf(d)}

\* C32: get_weekly_report_data(d) counts and sums exactly the transactions
\* recorded in the ISO calendar week that contains d: walk count and walk
\* total over the walks, payment/credit total over the payment and
\* credit_given rows, also when the week spans a change of calendar year.
C32_WeekOfDate ==
    \A d \in Days :
        LET report == get_weekly_report_data(d)
            walks  == RecordedInWeekOf(d, {"walk"})
            paid   == RecordedInWeekOf(d, {"payment", "credit_given"})
        IN  /\ report.walks_count = Cardinality(walks)
            /\ report.total_walks_amount = SumAmounts(SelectRows(transactions, walks))
            /\ report.total_payment_credit_amount
                   = SumAmounts(SelectRows(transactions, paid))

\* C33: once the weekly trigger has fired, the job eventually has sent the
\* weekly summary message (walk count, walk total, payment/credit total of
\* get_weekly_report_data and the current balance).
C33_ReportSent == (weekly_job # "scheduled") ~> (weekly_job = "sent")

\* the replies of cleanup_confirm that report a successful deletion
SuccessReplies == {"Successfully deleted", "Cleanup Complete"}

\* the rows a step removed from the log and from the table DB_PATH names
RemovedIds == (Ids(transactions) \ Ids(transactions')) \cup (Ids(other.rows) \ Ids(other'.rows))

\* C34: when the confirm step reports a successful cleanup, the number of
\* deleted entries in its reply is the number of transactions that step
\* removed, in the date-range branch and in the last-N-entries branch.
C34_ReportedCountIsRemoved ==
    [][\A c \in Chats :
           (/\ HandledBy(c, "cleanup_confirm")
            /\ handled'.reply.text \in SuccessReplies)
               => handled'.reply.count = Cardinality(RemovedIds)]_vars

\* C35: "pay out all" with a balance b > 0 records exactly one payment of
\* amount -b and leaves the balance at 0; with b <= 0 it records nothing and
\* leaves the balance as it is; in both cases the cash-out conversation ends.
C35_PayOutAllSettles ==
    [][\A c \in Chats :
           (/\ HandledBy(c, "cashout_type_chosen")
            /\ handled'.data = "cashout_all"
            /\ handled'.reply.error \notin StoreErrors)
               => /\ cashout_conv'[c] = END
                  /\ IF current_balance > 0
                     THEN /\ Len(transactions') = Len(transactions) + 1
                          /\ SubSeq(transactions', 1, Len(transactions)) = transactions
                          /\ transactions'[Len(transactions')].type = "payment"
                          /\ transactions'[Len(transactions')].amount = -current_balance
                          /\ current_balance' = 0
                     ELSE UNCHANGED <<transactions, current_balance, sqlite_sequence>>]_vars

\* a positive balance was paid out in full after a negative one was left alone
C35_Witness ==
    /\ handled.handler = "cashout_type_chosen"
    /\ handled.data = "cashout_all"
    /\ handled.reply.text = "was paid out"
    /\ current_balance = 0
    /\ Len(transactions) > 1
    /\ transactions[Len(transactions)].type = "payment"
    /\ \E i \in 1..Len(transactions) : transactions[i].type = "credit_given"

\* C36: receive_initial_balance overwrites the balance only when a preceding
\* /setinitial has left await_initial_balance set in the session: a bare
\* numeric text without a pending /setinitial leaves the balance unchanged.
C36_InitialBalanceAwaited ==
    [][\A c \in Chats :
           (/\ handled'.chat = c
            /\ handled'.handler = "receive_initial_balance"
            /\ current_balance' # current_balance)
               => Get(user_data[c], "await_initial_balance", FALSE)]_vars

\* the preview the chat is looking at came from the date-range branch
RangeShown(c) == state[c] = CONFIRM_CLEANUP /\ "cleanup_total_entries" \in DOMAIN user_data[c]

\* the preview the chat is looking at came from the last-N-entries branch
EntriesShown(c) == state[c] = CONFIRM_CLEANUP /\ "cleanup_entries" \in DOMAIN user_data[c]

\* C37: a confirm input of the branch that did not produce the current
\* preview (cleanup_confirm_entries after a date-range preview, cleanup_yes
\* after a last-N-entries preview) deletes nothing and ends the workflow.
C37_OtherBranchConfirm ==
    [][\A c \in Chats :
           (/\ CleanupStep(c)
            /\ handled'.handler = "cleanup_confirm"
            /\ \/ handled'.data = "cleanup_confirm_entries" /\ RangeShown(c)
               \/ handled'.data = "cleanup_yes" /\ EntriesShown(c))
               => /\ state'[c] = END
                  /\ UNCHANGED <<transactions, current_balance, sqlite_sequence, other>>]_vars

\* cleanup_yes was pressed on a last-N-entries preview: the rows it listed
\* are still in the table
C37_Witness ==
    /\ handled.handler = "cleanup_confirm"
    /\ handled.data = "cleanup_yes"
    /\ handled.reply.error = "KeyError"
    /\ "cleanup_entries" \in DOMAIN user_data[handled.chat]
    /\ state[handled.chat] = END
    /\ other.exists
    /\ other.rows # <<>>

\* the keys the cleanup handlers keep in the session
CleanupKeys ==
    {"cleanup_type", "cleanup_start_date", "cleanup_end_date", "cleanup_entries",
     "cleanup_walk_count", "cleanup_total_entries"}

\* the ids of the entries a session keeps for the last-N-entries branch
SessionIds(ud) ==
    LET entries == Get(ud, "cleanup_entries", <<>>)
    IN  {entries[i].id : i \in 1..Len(entries)}

\* C38: every admitted entry into the cleanup workflow empties the session,
\* so the workflow waits for an option with no cleanup data in the session,
\* and the id list or date range a confirm step hands to a delete primitive is the one
\* the preview of the current run listed.
C38_SessionOfThisRun ==
    [][\A c \in Chats :
           /\ (/\ CleanupStep(c)
               /\ handled'.handler = "cleanup_start_callback"
               /\ is_admin(c))
                  => user_data'[c] = EmptyData
           /\ state'[c] = ASK_CLEANUP_OPTION => DOMAIN user_data'[c] \cap CleanupKeys = {}
           /\ (PrimitiveInvoked /\ handled'.chat = c)
                  => /\ state[c] = CONFIRM_CLEANUP
                     /\ last'.op = "clean_specific_entries"
                            => (last'.ids = SessionIds(user_data[c]) /\ last'.ids = shown[c])
                     /\ last'.op = "clean_detailed_report"
                            => /\ last'.from_date = user_data[c]["cleanup_start_date"]
                               /\ last'.to_date = user_data[c]["cleanup_end_date"]
                               /\ RangeIds(last'.from_date, last'.to_date) \subseteq shown[c]]_vars

\* a confirm step deleted the range that the preview of its run had listed
C38_Witness ==
    /\ handled.handler = "cleanup_confirm"
    /\ last.op = "clean_detailed_report"
    /\ last.ret.deleted_count > 0
    /\ "cleanup_entries" \notin DOMAIN user_data[handled.chat]
    /\ other.exists
    /\ Len(other.rows) < MaxOther

\* C40: a press of a confirm or decline button by a chat whose cleanup
\* workflow is in the preview state ends that workflow, also while the same
\* chat's cash-out conversation waits for its type choice.
C40_ConfirmPressEnds ==
    [][\A c \in Chats :
           (/\ state[c] = CONFIRM_CLEANUP
            /\ handled'.chat = c
            /\ handled' # handled
            /\ handled'.data \in ConfirmData)
               => state'[c] = END]_vars

\* what the claim compares: the transaction log with its id counter, the
\* balance and the state of every conversation
Outcome == <<transactions, sqlite_sequence, current_balance, credit_conv, cashout_conv, state>>

\* the handler, run from this state on the same update with the display
\* attached and with the display absent, arrives both times at the outcome
\* this step arrived at
EitherWay(handler(_)) ==
    \E out \in {Outcome'} :
        \A oled_display \in Displays : ENABLED (handler(oled_display) /\ Outcome' = out)

\* C31: display notifications do not influence the ledger: every step of a
\* handler that notifies the display leaves the same transaction log, balance
\* and conversation states as the same handler on the same update with the
\* display attached and with the display absent, and without a display no
\* notification is stored.
C31_DisplayLeavesLedger ==
    [][/\ \A c \in Chats, text \in AmountTexts, fault \in Faults :
              /\ receive_credit_amount(c, text, fault)
                     => EitherWay(LAMBDA d : receive_credit_amount_with(c, text, fault, d))
              /\ receive_manual_cashout_amount(c, text, fault)
                     => EitherWay(LAMBDA d :
                                      receive_manual_cashout_amount_with(c, text, fault, d))
       /\ \A c \in Chats, data \in ButtonData, fault \in Faults :
              cashout_type_chosen(c, data, fault)
                  => EitherWay(LAMBDA d : cashout_type_chosen_with(c, data, fault, d))
       /\ global_oled_display = None => notification_text' = NoNotification]_vars

\* a pay-out-all was recorded and shown on the attached display
C31_Witness ==
    /\ global_oled_display = OLEDDisplayManager
    /\ notification_text = Notification("Paid Out", DefaultWalk)
    /\ handled.handler = "cashout_type_chosen"
    /\ transactions # <<>>
    /\ transactions[Len(transactions)].type = "payment"
    /\ current_balance = 0

====
